---- MODULE Spec2Model ----
(***************************************************************************)
(* Kart racer, multiplayer snapshot (snapshots/05-2359-multiplayer).       *)
(*                                                                         *)
(* The module holds several specifications over one set of variables:      *)
(*   SpecLobby   LobbyManager + GameRoom lifecycle (server/lobby.js,       *)
(*               server/room.js) up to the start of the tick loop;         *)
(*   SpecRoom    one started GameRoom around the end of its countdown:     *)
(*               input messages, removal of players, _tick, snapshots;     *)
(*   SpecRestart one room whose players keep toggling ready while it runs; *)
(*   SpecClient  GameClient.maybeSendInput (game/src/net/game-client.js);  *)
(*   SpecInterp  InterpolationBuffer (game/src/net/interpolation.js);      *)
(*   SpecRace    RaceManager.update over karts that drive round a track    *)
(*               (game/src/race.js);                                       *)
(*   SpecPredict Prediction.applyLocal / onServerState fed by the client   *)
(*               loop (game/src/net/prediction.js);                        *)
(*   SpecServer  the server process with a racing room and a lobby room:   *)
(*               what a bad message or a failed loadMap does to it;        *)
(*   SpecSlide   the hop / power-slide part of KartPhysics.update          *)
(*               (game/src/physics.js).                                    *)
(* Each specification leaves the variables of the others unchanged.        *)
(***************************************************************************)
EXTENDS Integers, Sequences, FiniteSets, TLC

VARIABLES
    clients,     \* LobbyManager.clients: connection -> [state, roomId]
    rooms,       \* LobbyManager.rooms: roomId -> GameRoom
    nextRoomId,  \* lobby.js module counter
    lastOp,      \* history: the last handled message / close and what it sent
    wire,        \* history: the last snapshot message sent to each connection
    hist,        \* history: per-room bookkeeping for the event / snapshot claims
    gc,          \* GameClient fields + history of the last frame
    ib,          \* InterpolationBuffer fields, the clock and delivery history
    rm,          \* RaceManager fields (game/src/race.js) and the karts it reads
    pred,        \* Prediction, the local kart and the reconciliation cursor
    srv,         \* the server process: alive or terminated, and why
    ks,          \* one kart's hop / power-slide fields (userData) and its last input
    kp,          \* one kart's speed, boost and vertical motion (userData, position.y)
    bp,          \* createServerBoostPads: pad cooldowns and the karts they boost
    ms,          \* createServerMissileSystem: the missiles in flight and the karts
    lb,          \* InterpolationBuffer: the buffered kart states and the last result
    tn,          \* createServerTNTSystem: the placed TNTs and the karts
    bx,          \* createServerItemBoxes: the boxes' timers and the karts
    bc           \* BotController: timers, the kart it drives and its input

kartVars == <<kp, bp, ms>>

itemVars == <<lb, tn, bx, bc>>

laterVars == <<rm, pred, srv, ks, kartVars, itemVars>>

vars == <<clients, rooms, nextRoomId, lastOp, wire, hist, gc, ib, laterVars>>

serverVars == <<clients, rooms, nextRoomId, lastOp, wire, hist>>

(***************************************************************************)
(* Bounds of the model.                                                    *)
(***************************************************************************)
ExtraClients == 1      \* connections beyond the MaxPlayers that fill one room
NumSettled == 3        \* SpecLobby: connections that sit in room 1 from the start
MaxRooms == 2          \* rooms ever created (nextRoomId stays <= MaxRooms)
MaxLobbyStarts == 1    \* startGame calls per room under SpecLobby
MaxStarts == 2         \* startGame calls per room under SpecRestart
MaxRestartTick == 6    \* SpecRestart: a room ticks up to this tick number
MaxSeq == 2            \* input sequence numbers 1..MaxSeq
FrozenLead == 2        \* frozen ticks left when SpecRoom starts
MaxRoomTicks == 6      \* ticks the room runs under SpecRoom
MaxHazards == 1        \* pad hits and item pickups the track produces under SpecRoom
NumRacers == 2         \* SpecRoom: human players in the started room
NearKarts == 2         \* SpecRoom: karts that come near pads, boxes, TNT and missiles
MaxClientNow == 120    \* SpecClient: frames happen up to this time (ms)
RaceKarts == 2         \* SpecRace: racers on the track
MaxRaceFrames == 10    \* SpecRace: updates after the countdown has reached GO
MaxPredX == 16         \* SpecPredict: the local kart stays within 0..MaxPredX
MaxPredSnaps == 3      \* SpecPredict: snapshots received
MaxServerTicks == 4     \* SpecServer: ticks a room makes
MaxKartFrames == 2      \* SpecKart: updates of the kart
MaxAirTurn == 44        \* SpecKart: steered updates in the air
GroundDrop == 20000     \* SpecKart: fall of the ground under the kart in one update
GroundRise == 5000      \* SpecKart: rise of the ground under the kart in one update
PadKarts == 2           \* SpecPads: karts
MaxPadTicks == 3        \* SpecPads: ticks
MissileKarts == 3       \* SpecMissile: karts, the owner included
MaxMissileTicks == 4    \* SpecMissile: updates of the missile system
MaxLerpPushes == 3      \* SpecLerp: snapshots that arrive
MaxLerpSteps == 6       \* SpecLerp: clock steps of LerpStep ms
LerpStep == 25          \* SpecLerp: the clock moves in steps of this many ms
TnKarts == 2            \* SpecTnt: karts
MaxTnTicks == 3         \* SpecTnt: ticks
MaxTnts == 2            \* SpecTnt: TNTs placed, the one of the start included
BxKarts == 2            \* SpecBoxes: karts
MaxBxTicks == 3         \* SpecBoxes: ticks
MaxBotTicks == 4        \* SpecBot: ticks
MaxCdSnaps == 3        \* SpecCountdown: snapshots received during the countdown
IbStep == 50           \* SpecInterp: the clock moves in steps of this many ms
MaxIbSteps == 1        \* SpecInterp: clock steps of IbStep ms
MaxIbEvents == 1       \* SpecInterp: events carried by snapshots, one per snapshot

(***************************************************************************)
(* Program constants.                                                      *)
(***************************************************************************)
MaxPlayers == 4            \* lobby.js:66 (room.playerCount >= 4), room.js:71
TICK_RATE == 60
SNAPSHOT_RATE == 20
SNAPSHOT_INTERVAL == TICK_RATE \div SNAPSHOT_RATE
COUNTDOWN_DURATION == 4     \* seconds: 3, 2, 1, GO
\* race.countdownTimer is kept in ticks of TICK_DT = 1/60 s
COUNTDOWN_TICKS == COUNTDOWN_DURATION * TICK_RATE

Clients == 1..(MaxPlayers + ExtraClients)
RoomIds == 1..MaxRooms
Slots == 0..(MaxPlayers - 1)
NoRoom == 0

Min(a, b) == IF a < b THEN a ELSE b

Range(s) == {s[i] : i \in 1..Len(s)}

RECURSIVE SeqFilterOut(_, _)
\* s without the entries whose id is in ids, order kept
SeqFilterOut(s, ids) ==
    IF s = <<>> THEN <<>>
    ELSE IF Head(s).id \in ids THEN SeqFilterOut(Tail(s), ids)
         ELSE <<Head(s)>> \o SeqFilterOut(Tail(s), ids)

(***************************************************************************)
(* GameRoom (server/room.js).  A room is a record; `players` keeps the     *)
(* insertion order of the JS Map, `karts` stands for both this.karts and   *)
(* this.allKartObjects (the same objects pushed in the same order),        *)
(* `loading` counts startGame calls suspended at `await loadMap`, `timers` *)
(* counts live setInterval timers (tickInterval only remembers the last).  *)
(* Player ids are the connection numbers; bot ids ('bot' + slot) are the   *)
(* negative numbers -(slot + 1).                                           *)
(***************************************************************************)
BotId(slot) == -(slot + 1)
IsBotId(id) == id < 0

NoInputs == <<>>

GameRoom ==
    [players |-> <<>>, running |-> FALSE, loading |-> 0, starts |-> 0,
     timers |-> 0, tick |-> 0, karts |-> <<>>, physics |-> <<>>, bots |-> <<>>,
     race |-> <<>>, events |-> <<>>, playerInputs |-> NoInputs,
     playerLastSeq |-> NoInputs, tnts |-> 0, missiles |-> 0]

playerCount(room) == Len(room.players)

PlayerIds(room) == {room.players[i].id : i \in 1..Len(room.players)}

HasPlayer(room, p) == p \in PlayerIds(room)

PlayerEntry(room, p) ==
    room.players[CHOOSE i \in 1..Len(room.players) : room.players[i].id = p]

_nextSlot(room) ==
    LET used == {room.players[i].slot : i \in 1..Len(room.players)}
        free == {i \in Slots : i \notin used}
    IN  IF free = {} THEN 0 ELSE CHOOSE i \in free : \A j \in free : i <= j

addPlayer(room, p) ==
    LET e == [id |-> p, ready |-> FALSE, slot |-> _nextSlot(room)]
    IN  IF HasPlayer(room, p)
        THEN [room EXCEPT !.players =
                 [i \in 1..Len(@) |-> IF @[i].id = p THEN e ELSE @[i]]]
        ELSE [room EXCEPT !.players = Append(@, e)]

BotInput == [accel |-> 0, hopTap |-> FALSE, itemUseTap |-> FALSE]

\* karts.find(k => k.id === id): the index of the first kart with that id, 0 if none
FindKart(room, id) ==
    LET hit == {i \in 1..Len(room.karts) : room.karts[i].id = id}
    IN  IF hit = {} THEN 0 ELSE CHOOSE i \in hit : \A j \in hit : i <= j

\* bots.find(b => b.id === id)
FindBot(room, id) ==
    LET hit == {i \in 1..Len(room.bots) : room.bots[i].id = id}
    IN  IF hit = {} THEN 0 ELSE CHOOSE i \in hit : \A j \in hit : i <= j

\* worldCPs is this.race.checkpoints when a race exists, [] otherwise
_convertToBot(room, kartIdx) ==
    [room EXCEPT !.bots =
        Append(@, [id |-> room.karts[kartIdx].id, kart |-> kartIdx, input |-> BotInput,
                   cps |-> IF room.race # <<>> THEN "race" ELSE "none"])]

removePlayer_noBot(room, p) == [room EXCEPT !.players = SeqFilterOut(@, {p})]

removePlayer(room, p) ==
    LET had   == HasPlayer(room, p)
        room1 == [room EXCEPT !.players = SeqFilterOut(@, {p})]
        k     == FindKart(room1, p)
    IN  IF room1.running /\ had /\ k # 0 THEN _convertToBot(room1, k) ELSE room1

toggleReady(room, p) ==
    [room EXCEPT !.players =
        [i \in 1..Len(@) |-> IF @[i].id = p THEN [@[i] EXCEPT !.ready = ~@] ELSE @[i]]]

allReady_some(room) == \E i \in 1..Len(room.players) : room.players[i].ready

allReady(room) == \A i \in 1..Len(room.players) : room.players[i].ready

_createServerKart(id) ==
    [id |-> id, heldItem |-> "none", drivenBy |-> "none", usedSeq |-> 0,
     usedHopTap |-> FALSE]

NewRace == <<[countdownTimer |-> COUNTDOWN_TICKS, countdownValue |-> 3]>>

\* startGame up to its `await loadMap`
startGameCall(room) ==
    [room EXCEPT !.running = TRUE, !.loading = @ + 1, !.starts = @ + 1]

\* startGame after loadMap has resolved: karts for the players present now, bots
\* for the other slots, a fresh race and item systems, tick reset, a new timer
startGameResume(room) ==
    LET n        == Len(room.players)
        base     == Len(room.karts)
        pKarts   == [i \in 1..n |-> _createServerKart(room.players[i].id)]
        pPhys    == [i \in 1..n |-> room.players[i].id]
        used     == {room.players[i].slot : i \in 1..n}
        freeSeq  == SelectSeq(<<0, 1, 2, 3>>, LAMBDA s : s \notin used)
        m        == Len(freeSeq)
        bKarts   == [i \in 1..m |-> _createServerKart(BotId(freeSeq[i]))]
        bPhys    == [i \in 1..m |-> BotId(freeSeq[i])]
        newBots  == [i \in 1..m |->
                       [id |-> BotId(freeSeq[i]), kart |-> base + n + i, input |-> BotInput,
                        cps |-> "race"]]
    IN  [room EXCEPT !.loading = @ - 1,
                     !.karts = @ \o pKarts \o bKarts,
                     !.physics = @ \o pPhys \o bPhys,
                     !.bots = @ \o newBots,
                     !.race = NewRace,
                     !.tnts = 0, !.missiles = 0,
                     !.tick = 0,
                     !.timers = @ + 1]

handleInput(room, p, seq, input) ==
    [room EXCEPT
        !.playerInputs = [q \in DOMAIN @ \cup {p} |->
                             IF q = p THEN [seq |-> seq, input |-> input] ELSE @[q]],
        !.playerLastSeq = [q \in DOMAIN @ \cup {p} |-> IF q = p THEN seq ELSE @[q]]]

\* GameRoom.stop: defined by room.js, called from nowhere in the server
stop(room) == [room EXCEPT !.timers = IF @ > 0 THEN @ - 1 ELSE 0, !.running = FALSE]

(***************************************************************************)
(* RaceManager countdown (game/src/race.js).  countdownTimer counts ticks  *)
(* of 1/60 s, so `countdownTimer > n` seconds reads `> n * TICK_RATE`.     *)
(***************************************************************************)
isFrozen(race) == race.countdownValue > 0

CountdownValue(t) ==
    IF t > 3 * TICK_RATE THEN 3
    ELSE IF t > 2 * TICK_RATE THEN 2
    ELSE IF t > 1 * TICK_RATE THEN 1
    ELSE IF t > 0 THEN 0
    ELSE -1

RaceUpdate(race) ==
    IF race.countdownTimer > 0
    THEN [countdownTimer |-> race.countdownTimer - 1,
          countdownValue |-> CountdownValue(race.countdownTimer - 1)]
    ELSE [race EXCEPT !.countdownValue = -1]

(***************************************************************************)
(* GameRoom._tick.  What the track geometry and Math.random decide is the  *)
(* environment record env:                                                 *)
(*   botTaps   the bots (indices into room.bots) whose item-use delay runs *)
(*             out on this tick;                                           *)
(*   reversing the bots that are in reverse recovery on this tick;         *)
(*   pad       index of the kart that a boost pad triggers for (0: none);  *)
(*   pick      index of the kart an item box grants to (0: none), item;    *)
(*   tnt, missile   "none" | "detonate" | "expire", victim: kart index.    *)
(* Kart poses are not part of this model: physics.update is recorded by    *)
(* the source of the input it was given (drivenBy, usedSeq).               *)
(***************************************************************************)
Items == {"boost", "tnt", "missile"}

DefaultInput == [accel |-> 0, hopTap |-> FALSE, itemUseTap |-> FALSE]

\* BotController.update: what it leaves in bot.input.  While the bot is in
\* reverse recovery the method returns before it touches the taps.
BotControllerUpdate(bot, kart, tap, reversing) ==
    IF reversing THEN [bot.input EXCEPT !.accel = -1]
    ELSE [accel |-> 1, hopTap |-> FALSE,
          itemUseTap |-> IF kart.heldItem # "none" THEN tap ELSE FALSE]

BotAI(room, botTaps, reversing) ==
    [room EXCEPT !.bots =
        [i \in 1..Len(@) |->
            [@[i] EXCEPT !.input =
                BotControllerUpdate(room.bots[i], room.karts[room.bots[i].kart],
                                    i \in botTaps, i \in reversing)]]]

\* the input _tick hands to physics.update for the kart with this id
InputSource(room, kartId) ==
    IF FindBot(room, kartId) # 0 THEN "bot"
    ELSE IF kartId \in DOMAIN room.playerInputs THEN "player"
    ELSE "default"

UsedSeq(room, kartId) ==
    IF InputSource(room, kartId) = "player" THEN room.playerInputs[kartId].seq ELSE 0

\* whether the input handed to physics.update carries a hop tap
UsedHopTap(room, kartId) ==
    IF InputSource(room, kartId) = "bot" THEN room.bots[FindBot(room, kartId)].input.hopTap
    ELSE IF InputSource(room, kartId) = "player" THEN room.playerInputs[kartId].input.hopTap
    ELSE DefaultInput.hopTap

\* step 3: every physics entry updates the first kart that carries its kartId
PhysicsAll(room) ==
    LET updated == {FindKart(room, room.physics[j]) : j \in 1..Len(room.physics)}
    IN  [room EXCEPT !.karts =
            [i \in 1..Len(@) |->
                IF i \in updated
                THEN [@[i] EXCEPT !.drivenBy = InputSource(room, room.karts[i].id),
                                  !.usedSeq = UsedSeq(room, room.karts[i].id),
                                  !.usedHopTap = UsedHopTap(room, room.karts[i].id)]
                ELSE @[i]]]

\* step 5: boostPads.update
BoostPadEvents(room, env) ==
    IF env.pad # 0 THEN <<[type |-> "boost_pad", kartId |-> room.karts[env.pad].id]>>
    ELSE <<>>

\* step 6: itemBoxes.update grants only to a kart that holds nothing
PickupHits(room, env) == env.pick # 0 /\ room.karts[env.pick].heldItem = "none"

ItemBoxes(room, env) ==
    IF PickupHits(room, env)
    THEN [room EXCEPT !.karts[env.pick].heldItem = env.item]
    ELSE room

ItemBoxEvents(room, env) ==
    IF PickupHits(room, env)
    THEN <<[type |-> "item_pickup", kartId |-> room.karts[env.pick].id]>>
    ELSE <<>>

\* step 7: item activation
UseTap(room, kartId) ==
    IF FindBot(room, kartId) # 0 THEN room.bots[FindBot(room, kartId)].input.itemUseTap
    ELSE kartId \in DOMAIN room.playerInputs /\ room.playerInputs[kartId].input.itemUseTap

Activates(room, i) ==
    UseTap(room, room.karts[i].id) /\ room.karts[i].heldItem # "none"

ActivationEventType(item) ==
    CASE item = "boost" -> "item_use"
      [] item = "tnt" -> "tnt_place"
      [] item = "missile" -> "missile_fire"

RECURSIVE ActivationEvents(_, _)
ActivationEvents(room, i) ==
    IF i > Len(room.karts) THEN <<>>
    ELSE (IF Activates(room, i)
          THEN <<[type |-> ActivationEventType(room.karts[i].heldItem),
                  kartId |-> room.karts[i].id]>>
          ELSE <<>>) \o ActivationEvents(room, i + 1)

\* variant: the used item stays in the kart's hand
ItemActivation_keepsItem(room) ==
    LET users == {i \in 1..Len(room.karts) : Activates(room, i)}
    IN  [room EXCEPT
            !.tnts = @ + Cardinality({i \in users : room.karts[i].heldItem = "tnt"}),
            !.missiles = @ + Cardinality({i \in users : room.karts[i].heldItem = "missile"})]

ItemActivation(room) ==
    LET users == {i \in 1..Len(room.karts) : Activates(room, i)}
    IN  [room EXCEPT
            !.karts = [i \in 1..Len(@) |->
                          IF i \in users THEN [@[i] EXCEPT !.heldItem = "none"] ELSE @[i]],
            !.tnts = @ + Cardinality({i \in users : room.karts[i].heldItem = "tnt"}),
            !.missiles = @ + Cardinality({i \in users : room.karts[i].heldItem = "missile"})]

\* steps 8 and 9: tntSystem.update, missileSystem.update
TntUpdate(room, env) ==
    IF env.tnt # "none" /\ room.tnts > 0 THEN [room EXCEPT !.tnts = @ - 1] ELSE room

TntEvents(room, env) ==
    IF env.tnt = "detonate" /\ room.tnts > 0
    THEN <<[type |-> "tnt_detonate", kartId |-> room.karts[env.victim].id]>>
    ELSE <<>>

MissileUpdate(room, env) ==
    IF env.missile # "none" /\ room.missiles > 0 THEN [room EXCEPT !.missiles = @ - 1]
    ELSE room

MissileEvents(room, env) ==
    IF env.missile = "detonate" /\ room.missiles > 0
    THEN <<[type |-> "missile_hit", kartId |-> room.karts[env.victim].id]>>
    ELSE <<>>

\* step 10: clear one-frame tap flags from player inputs
ClearTaps(room) ==
    [room EXCEPT !.playerInputs =
        [q \in DOMAIN @ |->
            [@[q] EXCEPT !.input.hopTap = FALSE, !.input.itemUseTap = FALSE]]]

\* the events of one tick get consecutive ids from base on (history only)
TagEvents(evs, base, tick) ==
    [i \in 1..Len(evs) |->
        [eid |-> base + i - 1, type |-> evs[i].type, kartId |-> evs[i].kartId,
         born |-> tick]]

\* steps 2..10 of an unfrozen tick
UnfrozenSteps(room, env, base) ==
    LET a  == PhysicsAll(BotAI(room, env.botTaps, env.reversing))
        e5 == BoostPadEvents(a, env)
        e6 == ItemBoxEvents(a, env)
        b  == ItemBoxes(a, env)
        e7 == ActivationEvents(b, 1)
        c  == ItemActivation(b)
        e8 == TntEvents(c, env)
        d  == TntUpdate(c, env)
        e9 == MissileEvents(d, env)
        f  == MissileUpdate(d, env)
    IN  [ClearTaps(f) EXCEPT
            !.events = @ \o TagEvents(e5 \o e6 \o e7 \o e8 \o e9, base, room.tick)]

TickSteps_noFreeze(room, env, base) ==
    UnfrozenSteps([room EXCEPT !.tick = @ + 1, !.race = <<RaceUpdate(@[1])>>], env, base)

\* _tick up to the snapshot test
TickSteps(room, env, base) ==
    LET r1 == [room EXCEPT !.tick = @ + 1, !.race = <<RaceUpdate(@[1])>>]
    IN  IF isFrozen(r1.race[1]) THEN r1 ELSE UnfrozenSteps(r1, env, base)

SnapshotDue(room) == room.tick % SNAPSHOT_INTERVAL = 0

\* _sendSnapshot: the message each present player is sent
SnapshotFor(room, p) ==
    [tick |-> room.tick,
     lastInputSeq |-> IF p \in DOMAIN room.playerLastSeq THEN room.playerLastSeq[p] ELSE 0,
     events |-> [i \in 1..Len(room.events) |-> room.events[i].eid]]

SpliceEvents_keep(room) == room

\* _sendSnapshot: this.events.splice(0)
SpliceEvents(room) == [room EXCEPT !.events = <<>>]

(***************************************************************************)
(* History kept per room for the event and snapshot properties.            *)
(***************************************************************************)
NoHist ==
    [nextEid |-> 1, hazards |-> 0, born |-> <<>>, bcasts |-> <<>>, bcastTick |-> <<>>,
     nSnaps |-> 0, lastSnap |-> -1, prevSnap |-> -1, snapEvents |-> <<>>,
     tickEvents |-> <<>>]

NoWire == [tick |-> -1, lastInputSeq |-> 0, events |-> <<>>]

QuietEnv ==
    [botTaps |-> {}, reversing |-> {}, pad |-> 0, pick |-> 0, item |-> "boost", tnt |-> "none",
     missile |-> "none", victim |-> 1]

\* the karts that drive near the track's boost pad and item box, and into
\* placed TNT and missiles: the first NearKarts karts of the room
NearKartSet(room) == 1..Min(NearKarts, Len(room.karts))

HazardChoices(room, h) ==
    {<<0, 0, "boost">>} \cup
    (IF h.hazards < MaxHazards
     THEN {<<k, 0, "boost">> : k \in NearKartSet(room)} \cup
          {<<0, k[1], k[2]>> : k \in NearKartSet(room) \X Items}
     ELSE {})

\* a TNT placed or a missile fired in this tick is updated in this tick (steps
\* 8 and 9 follow step 7) and can go off at once under a kart that is close
Holds(room, item) == \E i \in 1..Len(room.karts) : room.karts[i].heldItem = item

TickEnvs(room, h) ==
    IF isFrozen(RaceUpdate(room.race[1])) THEN {QuietEnv}
    ELSE {[botTaps |-> bt, reversing |-> rv, pad |-> hz[1], pick |-> hz[2], item |-> hz[3],
           tnt |-> t, missile |-> m, victim |-> v] :
            bt \in SUBSET {i \in 1..Len(room.bots) :
                              room.karts[room.bots[i].kart].heldItem # "none"},
            rv \in SUBSET {i \in 1..Len(room.bots) : room.bots[i].input.itemUseTap},
            hz \in HazardChoices(room, h),
            t \in (IF room.tnts > 0 THEN {"none", "detonate", "expire"}
                   ELSE IF Holds(room, "tnt") THEN {"none", "detonate"} ELSE {"none"}),
            m \in (IF room.missiles > 0 THEN {"none", "detonate", "expire"}
                   ELSE IF Holds(room, "missile") THEN {"none", "detonate"} ELSE {"none"}),
            v \in (IF room.tnts > 0 \/ room.missiles > 0
                      \/ Holds(room, "tnt") \/ Holds(room, "missile")
                   THEN NearKartSet(room) ELSE {1})}

HistAfterTick(h, room1) ==
    LET n    == Len(room1.events)
        new  == {i \in 1..n : room1.events[i].eid >= h.nextEid}
        k    == Cardinality(new)
        evs  == SelectSeq(room1.events, LAMBDA e : e.eid >= h.nextEid)
        h1   == [h EXCEPT !.nextEid = @ + k,
                          !.tickEvents = [i \in 1..Len(evs) |->
                                             [type |-> evs[i].type, kartId |-> evs[i].kartId]],
                          !.born = @ \o [i \in 1..k |-> room1.tick],
                          !.bcasts = @ \o [i \in 1..k |-> 0],
                          !.bcastTick = @ \o [i \in 1..k |-> -1]]
        out  == {room1.events[i].eid : i \in 1..n}
    IN  IF SnapshotDue(room1)
        THEN [h1 EXCEPT !.bcasts = [e \in 1..Len(@) |-> IF e \in out THEN @[e] + 1 ELSE @[e]],
                        !.bcastTick = [e \in 1..Len(@) |->
                                          IF e \in out THEN room1.tick ELSE @[e]],
                        !.nSnaps = @ + 1,
                        !.prevSnap = h.lastSnap,
                        !.lastSnap = room1.tick,
                        !.snapEvents = [i \in 1..n |-> room1.events[i].eid]]
        ELSE h1

(***************************************************************************)
(* LobbyManager (server/lobby.js).                                         *)
(***************************************************************************)
InRoom(c) == clients[c].roomId # NoRoom

\* rooms.delete(id)
DeleteRoom(rs, id) == [r \in DOMAIN rs \ {id} |-> rs[r]]

LeaveRoomIn_keepEmpty(rs, id, p) ==
    IF id \in DOMAIN rs THEN [rs EXCEPT ![id] = removePlayer(rs[id], p)] ELSE rs

\* the body of _leaveRoom / removeClient on the room registry
LeaveRoomIn(rs, id, p) ==
    IF id \in DOMAIN rs
    THEN LET room == removePlayer(rs[id], p)
         IN  IF playerCount(room) = 0 /\ ~room.running
             THEN DeleteRoom(rs, id)
             ELSE [rs EXCEPT ![id] = room]
    ELSE rs

\* variant: the sender stays in the room it is in
LeaveFirst_stay(c) == rooms

\* `if (client.roomId) this._leaveRoom(ws, client)`
LeaveFirst(c) ==
    IF InRoom(c) THEN LeaveRoomIn(rooms, clients[c].roomId, c) ELSE rooms

\* history: the message type, the room it named, the reply to the sender, and
\* whether a room was deleted from the registry while handling it
Op(type, c, rid, reply, rs) ==
    [type |-> type, roomId |-> IF type = "lobby:join" THEN rid ELSE NoRoom,
     reply |-> reply, deleted |-> DOMAIN rooms \ DOMAIN rs # {}]

LobbyCreate(c) ==
    /\ clients[c].open
    /\ nextRoomId <= MaxRooms
    /\ LET rs  == LeaveFirst(c)
           rid == nextRoomId
           rs2 == [r \in DOMAIN rs \cup {rid} |->
                      IF r = rid THEN addPlayer(GameRoom, c) ELSE rs[r]]
       IN  /\ rooms' = rs2
           /\ nextRoomId' = nextRoomId + 1
           /\ clients' = [clients EXCEPT ![c].roomId = rid]
           /\ lastOp' = Op("lobby:create", c, rid, "lobby:joined", rs2)
    /\ UNCHANGED <<wire, hist, gc, ib, laterVars>>

JoinRejected(rs, rid) ==
    rid \notin DOMAIN rs \/ rs[rid].running \/ playerCount(rs[rid]) >= MaxPlayers

LobbyJoin(c, rid) ==
    /\ clients[c].open
    /\ LET rs == LeaveFirst(c)
       IN  IF JoinRejected(rs, rid)
           THEN /\ rooms' = rs
                /\ clients' = [clients EXCEPT ![c].roomId = NoRoom]
                /\ lastOp' = Op("lobby:join", c, rid, "lobby:error", rs)
           ELSE /\ rooms' = [rs EXCEPT ![rid] = addPlayer(@, c)]
                /\ clients' = [clients EXCEPT ![c].roomId = rid]
                /\ lastOp' = Op("lobby:join", c, rid, "lobby:joined", rs)
    /\ UNCHANGED <<nextRoomId, wire, hist, gc, ib, laterVars>>

LobbyLeave(c) ==
    /\ clients[c].open
    /\ InRoom(c)
    /\ LET rs == LeaveRoomIn(rooms, clients[c].roomId, c)
       IN  /\ rooms' = rs
           /\ lastOp' = Op("lobby:leave", c, clients[c].roomId, "none", rs)
    /\ clients' = [clients EXCEPT ![c].roomId = NoRoom]
    /\ UNCHANGED <<nextRoomId, wire, hist, gc, ib, laterVars>>

LobbyReady(c, maxStarts) ==
    /\ clients[c].open
    /\ InRoom(c)
    /\ clients[c].roomId \in DOMAIN rooms
    /\ LET rid   == clients[c].roomId
           room  == toggleReady(rooms[rid], c)
           start == allReady(room) /\ playerCount(room) >= 1
       IN  /\ start => room.starts < maxStarts
           /\ rooms' = [rooms EXCEPT ![rid] = IF start THEN startGameCall(room) ELSE room]
           /\ lastOp' = Op("lobby:ready", c, rid, "none", rooms)
    /\ UNCHANGED <<clients, nextRoomId, wire, hist, gc, ib, laterVars>>

InputMsg(c, seq, input) ==
    /\ clients[c].open
    /\ InRoom(c)
    /\ clients[c].roomId \in DOMAIN rooms
    /\ rooms[clients[c].roomId].running
    /\ rooms' = [rooms EXCEPT ![clients[c].roomId] = handleInput(@, c, seq, input)]
    /\ lastOp' = Op("input", c, clients[c].roomId, "none", rooms)
    /\ UNCHANGED <<clients, nextRoomId, wire, hist, gc, ib, laterVars>>

\* ws 'close' -> removeClient
Close(c) ==
    /\ clients[c].open
    /\ LET rs == LeaveFirst(c)
       IN  /\ rooms' = rs
           /\ lastOp' = Op("close", c, clients[c].roomId, "none", rs)
    /\ clients' = [clients EXCEPT ![c] = [open |-> FALSE, roomId |-> NoRoom]]
    /\ UNCHANGED <<nextRoomId, wire, hist, gc, ib, laterVars>>

\* loadMap resolves and a suspended startGame runs to its end
StartGameResume(r) ==
    /\ r \in DOMAIN rooms
    /\ rooms[r].loading > 0
    /\ rooms' = [rooms EXCEPT ![r] = startGameResume(@)]
    /\ UNCHANGED <<clients, nextRoomId, lastOp, wire, hist, gc, ib, laterVars>>

\* one firing of a room's interval timer
Tick(r, maxTick) ==
    /\ r \in DOMAIN rooms
    /\ rooms[r].timers > 0
    /\ rooms[r].tick < maxTick
    /\ \E env \in TickEnvs(rooms[r], hist[r]) :
        \E room1 \in {TickSteps(rooms[r], env, hist[r].nextEid)} :
         LET due   == SnapshotDue(room1)
         IN  /\ rooms' = [rooms EXCEPT ![r] = IF due THEN SpliceEvents(room1) ELSE room1]
             /\ wire' = IF due
                        THEN [c \in Clients |->
                                 IF HasPlayer(room1, c) THEN SnapshotFor(room1, c)
                                 ELSE wire[c]]
                        ELSE wire
             /\ hist' = [hist EXCEPT ![r] =
                            [HistAfterTick(@, room1) EXCEPT
                                !.hazards = @ + (IF env.pad # 0 \/ env.pick # 0
                                                 THEN 1 ELSE 0)]]
    /\ UNCHANGED <<clients, nextRoomId, lastOp, gc, ib, laterVars>>

NoOp == [type |-> "none", roomId |-> NoRoom, reply |-> "none", deleted |-> FALSE]

(***************************************************************************)
(* GameClient (game/src/net/game-client.js) and Connection.send            *)
(* (game/src/net/lobby-client.js).  Times are milliseconds.                *)
(***************************************************************************)
SEND_RATE == 20
SEND_INTERVAL == 1000 \div SEND_RATE

TapNames == {"hopZTap", "hopXTap", "itemUseTap"}

GameClient ==
    [seq |-> 0, lastSendTime |-> 0, _pendingHopZTap |-> FALSE,
     _pendingHopXTap |-> FALSE, _pendingItemUseTap |-> FALSE]

maybeSendInput_frameTaps(g, input, now) ==
    IF now - g.lastSendTime < SEND_INTERVAL THEN [client |-> g, ret |-> <<>>]
    ELSE [client |-> [g EXCEPT !.lastSendTime = now, !.seq = @ + 1],
          ret |-> <<[seq |-> g.seq + 1, input |-> input]>>]

\* the client after the call, and what the call hands to conn.send (<<>>: null)
maybeSendInput(g, input, now) ==
    LET acc == [g EXCEPT !._pendingHopZTap = @ \/ input.hopZTap,
                         !._pendingHopXTap = @ \/ input.hopXTap,
                         !._pendingItemUseTap = @ \/ input.itemUseTap]
    IN  IF now - acc.lastSendTime < SEND_INTERVAL
        THEN [client |-> acc, ret |-> <<>>]
        ELSE [client |-> [acc EXCEPT !.lastSendTime = now,
                                     !.seq = @ + 1,
                                     !._pendingHopZTap = FALSE,
                                     !._pendingHopXTap = FALSE,
                                     !._pendingItemUseTap = FALSE],
              ret |-> <<[seq |-> acc.seq + 1,
                         input |-> [accel |-> input.accel,
                                    hopZTap |-> acc._pendingHopZTap,
                                    hopXTap |-> acc._pendingHopXTap,
                                    itemUseTap |-> acc._pendingItemUseTap]]>>]

\* Connection.send: the message goes out only on an open socket
ConnSend(open, msgs) == IF open THEN msgs ELSE <<>>

TapsOf(input) == {t \in TapNames : input[t]}

\* gc: the client object, the socket, the clock of the last frame, and history:
\* the taps of the last frame, the message the last frame put on the socket,
\* the taps raised since the last message went out, time and seq of that message
NoGc ==
    [client |-> GameClient, connOpen |-> TRUE, now |-> 0, frames |-> 0,
     frameTaps |-> {}, sent |-> <<>>, owed |-> {}, nSent |-> 0, sentAt |-> 0,
     sentSeq |-> 0]

FrameGaps == {10, 25}

FrameInputs ==
    [accel : {1}, hopZTap : BOOLEAN, hopXTap : BOOLEAN, itemUseTap : BOOLEAN]

\* one frame of the client loop: gameClient.maybeSendInput(input, now)
Frame(input, dt) ==
    /\ gc.now + dt <= MaxClientNow
    /\ LET now == gc.now + dt
           r   == maybeSendInput(gc.client, input, now)
           out == ConnSend(gc.connOpen, r.ret)
       IN  gc' = [gc EXCEPT !.client = r.client,
                            !.now = now,
                            !.frames = @ + 1,
                            !.frameTaps = TapsOf(input),
                            !.sent = out,
                            !.owed = IF out # <<>> THEN {} ELSE @ \cup TapsOf(input),
                            !.nSent = IF out # <<>> THEN @ + 1 ELSE @,
                            !.sentAt = IF out # <<>> THEN now ELSE @,
                            !.sentSeq = IF out # <<>> THEN out[1].seq ELSE @]
    /\ UNCHANGED <<serverVars, ib, laterVars>>

\* the socket closes (ws.onclose); it is never reopened
ConnClose ==
    /\ gc.connOpen
    /\ gc' = [gc EXCEPT !.connOpen = FALSE]
    /\ UNCHANGED <<serverVars, ib, laterVars>>

(***************************************************************************)
(* InterpolationBuffer (client net code).  A buffered snapshot keeps its   *)
(* arrival time, its events (ids) and eventsConsumed.                      *)
(***************************************************************************)
INTERP_DELAY == 100
MaxSnapshots == 30

push(snaps, snapshot, now) ==
    LET s == Append(snaps, [serverTime |-> now, events |-> snapshot.events,
                            eventsConsumed |-> FALSE])
    IN  IF Len(s) > MaxSnapshots THEN Tail(s) ELSE s

\* the snapshots whose events a call at time `now` collects (2 or more buffered)
Collects(snap, now) ==
    /\ ~snap.eventsConsumed
    /\ Len(snap.events) > 0
    /\ snap.serverTime <= (now - INTERP_DELAY) + INTERP_DELAY \div 2

RECURSIVE CollectEvents(_, _, _)
CollectEvents(snaps, now, i) ==
    IF i > Len(snaps) THEN <<>>
    ELSE (IF Collects(snaps[i], now) THEN snaps[i].events ELSE <<>>)
         \o CollectEvents(snaps, now, i + 1)

\* the buffer after the call and the events of the returned state (ret <<>>: null)
getInterpolatedState(snaps, now) ==
    IF Len(snaps) = 0 THEN [snapshots |-> snaps, ret |-> <<>>]
    ELSE IF Len(snaps) = 1
    THEN [snapshots |-> <<[snaps[1] EXCEPT !.eventsConsumed = TRUE]>>,
          ret |-> <<[events |-> IF snaps[1].eventsConsumed THEN <<>>
                                ELSE snaps[1].events]>>]
    ELSE [snapshots |-> [i \in 1..Len(snaps) |->
                            IF Collects(snaps[i], now)
                            THEN [snaps[i] EXCEPT !.eventsConsumed = TRUE]
                            ELSE snaps[i]],
          ret |-> <<[events |-> CollectEvents(snaps, now, 1)]>>]

\* ib: the buffer, performance.now(), and history: the event ids handed out and
\* how often each of them was returned
NoIb ==
    [snapshots |-> <<>>, now |-> 0, nextEid |-> 1, delivered |-> <<>>]

\* a snapshot message arrives: interpBuffer.push(msg), with k events
IbPush(k) ==
    /\ ib.nextEid + k - 1 <= MaxIbEvents
    /\ ib' = [ib EXCEPT
                !.snapshots = push(@, [events |-> [i \in 1..k |-> ib.nextEid + i - 1]],
                                   ib.now),
                !.nextEid = @ + k,
                !.delivered = @ \o [i \in 1..k |-> 0]]
    /\ UNCHANGED <<serverVars, gc, laterVars>>

\* a frame of the client loop calls interpBuffer.getInterpolatedState()
IbGet ==
    /\ LET r   == getInterpolatedState(ib.snapshots, ib.now)
           got == IF r.ret = <<>> THEN {} ELSE Range(r.ret[1].events)
       IN  ib' = [ib EXCEPT !.snapshots = r.snapshots,
                            !.delivered = [e \in 1..Len(@) |->
                                              IF e \in got THEN @[e] + 1 ELSE @[e]]]
    /\ UNCHANGED <<serverVars, gc, laterVars>>

\* performance.now() moves on
IbAdvance ==
    /\ ib.now + IbStep <= MaxIbSteps * IbStep
    /\ ib' = [ib EXCEPT !.now = @ + IbStep]
    /\ UNCHANGED <<serverVars, gc, laterVars>>

(***************************************************************************)
(* RaceManager (game/src/race.js).  Positions are points [x, z] of the     *)
(* ground plane with integer coordinates; distances are compared through   *)
(* their squares.  The finish line is the one startGame builds for a spawn *)
(* angle of 0: origin (0, 0), normal (0, -1), so the race runs towards -z. *)
(* Karts keep rotation.y = 0 (they face -z).                               *)
(***************************************************************************)
TOTAL_LAPS == 3
CP_HIT_RADIUS == 30
CP_LOOKAHEAD == 4
FINISH_LINE_WIDTH == 60

Pt(x, z) == [x |-> x, z |-> z]

Abs(n) == IF n < 0 THEN -n ELSE n

SetMax(S) == CHOOSE m \in S : \A n \in S : n <= m

Dist2(p, q) == (p.x - q.x) * (p.x - q.x) + (p.z - q.z) * (p.z - q.z)

finishLine == [x |-> 0, z |-> 0, nx |-> 0, nz |-> -1]

\* a loop of six checkpoints: down the start straight, across, back up the far
\* side (x = 40, outside the finish line's width) and home
Loop6 == <<Pt(0, -20), Pt(0, -40), Pt(40, -40), Pt(40, -20), Pt(40, 0), Pt(40, 20)>>

\* a map with a single checkpoint
Loop1 == <<Pt(0, -20)>>

Tracks == {Loop6, Loop1}

\* startGame's gridSlots for spawn angle 0: lateral +-3, rows 0 and 4 behind
spawnPositions == <<Pt(-3, 0), Pt(3, 0), Pt(-3, 4), Pt(3, 4)>>

_signedDist(p) == (p.x - finishLine.x) * finishLine.nx + (p.z - finishLine.z) * finishLine.nz

Racer(p) ==
    [kart |-> p, nextCheckpoint |-> 0, lap |-> 1, cpThisLap |-> 0,
     checkpointsPassed |-> 0, wrongWay |-> FALSE, finished |-> FALSE,
     position |-> 1, prevSide |-> _signedDist(p)]

RaceManager(cps, karts) ==
    [checkpoints |-> cps, totalLaps |-> TOTAL_LAPS,
     countdownTimer |-> COUNTDOWN_TICKS, countdownValue |-> 3,
     racers |-> [i \in 1..Len(karts) |-> Racer(karts[i])]]

\* checkpoints[i] of the code is cps[i + 1]
CpAt(cps, i) == cps[i + 1]

minCPs(cps) == Len(cps) \div 2

bestAdvance_first(cps, r) ==
    LET hit == {look \in 0..(CP_LOOKAHEAD - 1) :
                   Dist2(CpAt(cps, (r.nextCheckpoint + look) % Len(cps)), r.kart)
                       < CP_HIT_RADIUS * CP_HIT_RADIUS}
    IN  IF hit = {} THEN -1 ELSE CHOOSE m \in hit : \A n \in hit : m <= n

\* the lookahead loop: the last offset whose checkpoint is within the radius
bestAdvance(cps, r) ==
    LET hit == {look \in 0..(CP_LOOKAHEAD - 1) :
                   Dist2(CpAt(cps, (r.nextCheckpoint + look) % Len(cps)), r.kart)
                       < CP_HIT_RADIUS * CP_HIT_RADIUS}
    IN  IF hit = {} THEN -1 ELSE SetMax(hit)

AdvanceCheckpoint(cps, r) ==
    LET steps == bestAdvance(cps, r) + 1
    IN  IF steps > 0
        THEN [r EXCEPT !.nextCheckpoint = (@ + steps) % Len(cps),
                       !.checkpointsPassed = @ + steps,
                       !.cpThisLap = @ + steps]
        ELSE r

withinLine(p) ==
    2 * Abs((p.x - finishLine.x) * (-finishLine.nz) + (p.z - finishLine.z) * finishLine.nx)
        <= FINISH_LINE_WIDTH

FinishLineCrossing_anyProgress(cps, totalLaps, r) ==
    LET curSide == _signedDist(r.kart)
        r1 == IF r.prevSide < 0 /\ curSide >= 0 /\ withinLine(r.kart)
              THEN [r EXCEPT !.cpThisLap = 0, !.nextCheckpoint = 0,
                             !.lap = IF r.lap + 1 > totalLaps THEN totalLaps ELSE r.lap + 1,
                             !.finished = r.lap + 1 > totalLaps]
              ELSE r
    IN  [r1 EXCEPT !.prevSide = curSide]

FinishLineCrossing(cps, totalLaps, r) ==
    LET curSide == _signedDist(r.kart)
        r1 == IF r.prevSide < 0 /\ curSide >= 0 /\ r.cpThisLap >= minCPs(cps)
                 /\ withinLine(r.kart)
              THEN [r EXCEPT !.cpThisLap = 0, !.nextCheckpoint = 0,
                             !.lap = IF r.lap + 1 > totalLaps THEN totalLaps ELSE r.lap + 1,
                             !.finished = r.lap + 1 > totalLaps]
              ELSE r
    IN  [r1 EXCEPT !.prevSide = curSide]

\* forward is (0, -1): dot = -toCPz / toCPdist, and dot < -0.3 compared in squares
WrongWay(cps, r) ==
    LET nextCP == CpAt(cps, r.nextCheckpoint)
        toCPz == nextCP.z - r.kart.z
        d2 == Dist2(nextCP, r.kart)
    IN  [r EXCEPT !.wrongWay = d2 > 1 /\ toCPz > 0 /\ 100 * toCPz * toCPz > 9 * d2]

ComparePositions_lapAscending(cps, a, b) ==
    IF a.finished # b.finished THEN (IF a.finished THEN -1 ELSE 1)
    ELSE IF a.lap # b.lap THEN a.lap - b.lap
    ELSE IF a.checkpointsPassed # b.checkpointsPassed
         THEN b.checkpointsPassed - a.checkpointsPassed
    ELSE Dist2(CpAt(cps, a.nextCheckpoint), a.kart)
             - Dist2(CpAt(cps, b.nextCheckpoint), b.kart)

\* the comparator of _updatePositions: negative when a sorts before b
ComparePositions(cps, a, b) ==
    IF a.finished # b.finished THEN (IF a.finished THEN -1 ELSE 1)
    ELSE IF a.lap # b.lap THEN b.lap - a.lap
    ELSE IF a.checkpointsPassed # b.checkpointsPassed
         THEN b.checkpointsPassed - a.checkpointsPassed
    ELSE Dist2(CpAt(cps, a.nextCheckpoint), a.kart)
             - Dist2(CpAt(cps, b.nextCheckpoint), b.kart)

\* Array.prototype.sort is stable: among racers the comparator holds equal, the
\* one earlier in the array comes first
_updatePositions(cps, racers) ==
    [i \in 1..Len(racers) |->
        [racers[i] EXCEPT !.position =
            1 + Cardinality({j \in 1..Len(racers) :
                    \/ ComparePositions(cps, racers[j], racers[i]) < 0
                    \/ (ComparePositions(cps, racers[j], racers[i]) = 0 /\ j < i)})]]

\* variant: finished racers are updated like the others
UpdateRacer_noSkip(cps, totalLaps, r) ==
    WrongWay(cps, FinishLineCrossing(cps, totalLaps, AdvanceCheckpoint(cps, r)))

UpdateRacer(cps, totalLaps, r) ==
    IF r.finished THEN r
    ELSE WrongWay(cps, FinishLineCrossing(cps, totalLaps, AdvanceCheckpoint(cps, r)))

RaceManagerUpdate(race) ==
    LET c == RaceUpdate([countdownTimer |-> race.countdownTimer,
                         countdownValue |-> race.countdownValue])
        r0 == [race EXCEPT !.countdownTimer = c.countdownTimer,
                           !.countdownValue = c.countdownValue]
    IN  IF isFrozen(r0) \/ Len(race.checkpoints) < 2 THEN r0
        ELSE [r0 EXCEPT !.racers =
                 _updatePositions(race.checkpoints,
                     [i \in 1..Len(race.racers) |->
                         UpdateRacer(race.checkpoints, race.totalLaps, race.racers[i])])]

NoRm == RaceManager(<<>>, <<>>)

\* where the karts of SpecRace may be when an update runs: racer 1 anywhere on
\* the track, the others on the first half of the lap
TrackPoints ==
    {Pt(-3, 0), Pt(3, 0), Pt(0, -20), Pt(40, -60), Pt(40, -20), Pt(40, 20), Pt(0, 20)}

KartPoints(i) ==
    IF i = 1 THEN TrackPoints
    ELSE {spawnPositions[((i - 1) % 4) + 1], Pt(40, -20)}

KartMoves(n) == {to \in [1..n -> TrackPoints] : \A i \in 1..n : to[i] \in KartPoints(i)}

\* one frame: physics has moved the karts (unless the previous update left the
\* race frozen), then RaceManager.update runs
RaceFrame(to) ==
    /\ TICK_RATE - rm.countdownTimer < MaxRaceFrames
    /\ rm' = RaceManagerUpdate(
                 IF isFrozen(rm) THEN rm
                 ELSE [rm EXCEPT !.racers =
                          [i \in DOMAIN rm.racers |-> [rm.racers[i] EXCEPT !.kart = to[i]]]])
    /\ UNCHANGED <<serverVars, gc, ib, pred, srv, ks, kartVars, itemVars>>

(***************************************************************************)
(* Prediction (game/src/net/prediction.js) with the part of the client     *)
(* loop that drives it.  Lengths are in quarter world units (Scale), the   *)
(* error lies along x only (server y and z agree with the kart), so the    *)
(* offset vector is its x component and every length is exact.  Frames     *)
(* are as long as the loop's clamp on dt allows.                           *)
(***************************************************************************)
Scale == 4
SNAP_THRESHOLD == 3
BLEND_RATE == 5
MaxFrameMs == 50

Sign(n) == IF n < 0 THEN -1 ELSE IF n > 0 THEN 1 ELSE 0

NoSnapshot == [tick |-> -1, x |-> 0, heldItem |-> "none", boostSpeed |-> 0, boostTimer |-> 0]

Prediction ==
    [x |-> 0, _offset |-> 0,
     heldItem |-> "none", boostSpeed |-> 0, boostTimer |-> 0,
     latest |-> NoSnapshot, _lastReconcileTick |-> -1,
     op |-> "none", blended |-> 0, accepted |-> FALSE]

\* physics.update moves the kart by `move`; then the offset is blended out
applyLocal(p, move) ==
    LET blendStep == (BLEND_RATE * MaxFrameMs * Scale) \div 1000
        len == Abs(p._offset)
        step == IF len = 0 THEN 0
                ELSE IF len <= blendStep THEN p._offset
                ELSE Sign(p._offset) * blendStep
    IN  [p EXCEPT !.x = @ + move + step, !._offset = @ - step, !.blended = step]

onServerState_accumulate(p, serverState) ==
    LET dx == serverState.x - p.x
        synced == [p EXCEPT !.heldItem = serverState.heldItem,
                            !.boostSpeed = serverState.boostSpeed,
                            !.boostTimer = serverState.boostTimer]
    IN  IF Abs(dx) < SNAP_THRESHOLD * Scale
        THEN [synced EXCEPT !.accepted = TRUE]
        ELSE [synced EXCEPT !._offset = @ + dx, !.accepted = FALSE]

onServerState(p, serverState) ==
    LET dx == serverState.x - p.x
        synced == [p EXCEPT !.heldItem = serverState.heldItem,
                            !.boostSpeed = serverState.boostSpeed,
                            !.boostTimer = serverState.boostTimer]
    IN  IF Abs(dx) < SNAP_THRESHOLD * Scale
        THEN [synced EXCEPT !.accepted = TRUE]
        ELSE [synced EXCEPT !._offset = dx, !.accepted = FALSE]

\* the snapshot getLatestForReconciliation returns, NoSnapshot for null
getLatestForReconciliation(p) ==
    IF p.latest.tick = -1 \/ p.latest.tick = p._lastReconcileTick
    THEN NoSnapshot ELSE p.latest

\* step 4 of the loop: a new latest snapshot is compared with the prediction
Reconcile(p) ==
    LET rawSnap == getLatestForReconciliation(p)
    IN  IF rawSnap = NoSnapshot THEN p
        ELSE onServerState([p EXCEPT !._lastReconcileTick = rawSnap.tick], rawSnap)

\* what a snapshot can say about the local kart
ServerStates ==
    {[tick |-> t, x |-> x, heldItem |-> s.heldItem,
      boostSpeed |-> s.boost, boostTimer |-> s.boost] :
        t \in 1..MaxPredSnaps, x \in {0, 4, MaxPredX - 3, MaxPredX},
        s \in {[heldItem |-> "none", boost |-> 0], [heldItem |-> "missile", boost |-> 1]}}

\* gameClient.onSnapshot: the buffer's latest snapshot is the one just pushed
PredPush(s) ==
    /\ s.tick = IF pred.latest.tick = -1 THEN 1 ELSE pred.latest.tick + 1
    /\ pred' = [pred EXCEPT !.latest = s, !.op = "push"]
    /\ UNCHANGED <<serverVars, gc, ib, rm, srv, ks, kartVars, itemVars>>

\* one gameLoop frame: applyLocal, then reconciliation
PredFrame(move) ==
    /\ pred.x + move \in 0..MaxPredX
    /\ pred' = [Reconcile(applyLocal(pred, move)) EXCEPT !.op = "frame"]
    /\ UNCHANGED <<serverVars, gc, ib, rm, srv, ks, kartVars, itemVars>>

(***************************************************************************)
(* The server process (server/index.js).  Node ends the process on an      *)
(* exception that escapes a timer callback and on a promise rejection      *)
(* nobody handles; the server installs no handler for either.  noInput is  *)
(* the set of players whose stored playerInputs entry has `input`          *)
(* undefined (the room record then holds DefaultInput in its place).       *)
(***************************************************************************)
NoSrv == [alive |-> TRUE, noInput |-> {}, cause |-> "none"]

\* ws.on('message'): JSON.parse or handleMessage throws inside the try, or the
\* type matches no case of the switch; the message is dropped
SrvDropMessage(c) ==
    /\ srv.alive
    /\ clients[c].open
    /\ lastOp' = Op("dropped", c, NoRoom, "none", rooms)
    /\ UNCHANGED <<clients, rooms, nextRoomId, wire, hist, gc, ib, laterVars>>

SrvReady(c) == srv.alive /\ LobbyReady(c, MaxLobbyStarts)

\* loadMap resolves
SrvStartGameResume(r) == srv.alive /\ StartGameResume(r)

\* loadMap throws (no such map directory, unreadable map.json or png): the
\* promise startGame returned is rejected, lobby:ready neither awaits nor
\* catches it
SrvStartGameRejects(r) ==
    /\ srv.alive
    /\ r \in DOMAIN rooms
    /\ rooms[r].loading > 0
    /\ rooms' = [rooms EXCEPT ![r].loading = @ - 1]
    /\ srv' = [srv EXCEPT !.alive = FALSE, !.cause = "startGame"]
    /\ UNCHANGED <<clients, nextRoomId, lastOp, wire, hist, gc, ib, rm, pred, ks, kartVars, itemVars>>

SrvInput(c, seq, input) == srv.alive /\ c \notin srv.noInput /\ InputMsg(c, seq, input)

\* an input message without an `input` member: handleInput stores it as it is
SrvInputUndefined(c, seq) ==
    /\ srv.alive
    /\ clients[c].open
    /\ InRoom(c)
    /\ clients[c].roomId \in DOMAIN rooms
    /\ rooms[clients[c].roomId].running
    /\ rooms' = [rooms EXCEPT ![clients[c].roomId] = handleInput(@, c, seq, DefaultInput)]
    /\ lastOp' = Op("input", c, clients[c].roomId, "none", rooms)
    /\ srv' = [srv EXCEPT !.noInput = @ \cup {c}]
    /\ UNCHANGED <<clients, nextRoomId, wire, hist, gc, ib, rm, pred, ks, kartVars, itemVars>>

\* step 3 of _tick reaches physics.update(kart, undefined, dt), which reads
\* input.hopZ
PhysicsThrows(room) ==
    /\ room.race # <<>>
    /\ ~isFrozen(RaceUpdate(room.race[1]))
    /\ \E j \in 1..Len(room.physics) :
          /\ FindKart(room, room.physics[j]) # 0
          /\ InputSource(room, room.physics[j]) = "player"
          /\ room.physics[j] \in srv.noInput

SrvTick(r, maxTick) ==
    /\ srv.alive
    /\ r \in DOMAIN rooms
    /\ ~PhysicsThrows(rooms[r])
    /\ Tick(r, maxTick)

\* the exception leaves _tick and the timer callback
SrvTickThrows(r) ==
    /\ srv.alive
    /\ r \in DOMAIN rooms
    /\ rooms[r].timers > 0
    /\ PhysicsThrows(rooms[r])
    /\ rooms' = [rooms EXCEPT ![r].tick = @ + 1, ![r].race = <<RaceUpdate(@[1])>>]
    /\ srv' = [srv EXCEPT !.alive = FALSE, !.cause = "tick"]
    /\ UNCHANGED <<clients, nextRoomId, lastOp, wire, hist, gc, ib, rm, pred, ks, kartVars, itemVars>>

(***************************************************************************)
(* KartPhysics.update, hop and power slide (game/src/physics.js).  Times   *)
(* are milliseconds and every update lasts MaxFrameMs; the sweet spots     *)
(* are in hundredths of the meter.  Speed, steering, position and the      *)
(* decay of a boost are outside the model: whether the kart is on the      *)
(* ground when the update ends, and whether it fell off the map, are the   *)
(* environment's choice.  boostCharge is the charge whose boostSpeed and   *)
(* boostTimer were last set.                                               *)
(***************************************************************************)
slideMeterDuration == 1500

SWEET_SPOTS == <<<<55, 85>>, <<60, 80>>, <<65, 80>>>>

NoSlideInput ==
    [hopZ |-> FALSE, hopX |-> FALSE, hopZTap |-> FALSE, hopXTap |-> FALSE, steer |-> 0]

NoKs ==
    [grounded |-> FALSE, slideActive |-> FALSE, slideButton |-> "none",
     slideTimer |-> 0, slideBoosts |-> 0, boostCharge |-> 0,
     input |-> NoSlideInput, meter |-> -1, op |-> "none"]

SlideInputs ==
    [hopZ : BOOLEAN, hopX : BOOLEAN, hopZTap : BOOLEAN, hopXTap : BOOLEAN, steer : {0, 1}]

slideHeld(k, input) ==
    (k.slideButton = "z" /\ input.hopZ) \/ (k.slideButton = "x" /\ input.hopX)

\* hop initiation
HopInit(k, input) ==
    IF (input.hopZTap \/ input.hopXTap) /\ k.grounded /\ ~k.slideActive
    THEN [k EXCEPT !.grounded = FALSE,
                   !.slideButton = IF input.hopZTap THEN "z" ELSE "x",
                   !.slideTimer = 0, !.slideBoosts = 0]
    ELSE k

\* slide entry
SlideEntry(k, input) ==
    IF k.grounded /\ ~k.slideActive /\ k.slideButton # "none"
    THEN IF slideHeld(k, input) /\ input.steer # 0
         THEN [k EXCEPT !.slideActive = TRUE, !.slideTimer = 0]
         ELSE IF ~slideHeld(k, input) THEN [k EXCEPT !.slideButton = "none"]
         ELSE k
    ELSE k

\* slide end
SlideEnd(k, input) ==
    IF k.slideActive /\ ~slideHeld(k, input)
    THEN [k EXCEPT !.slideActive = FALSE, !.slideButton = "none",
                   !.slideTimer = 0, !.slideBoosts = 0]
    ELSE k

InSweetSpot(timer, charge) ==
    /\ 100 * timer >= SWEET_SPOTS[charge + 1][1] * slideMeterDuration
    /\ 100 * timer <= SWEET_SPOTS[charge + 1][2] * slideMeterDuration

SlideMeter_anyTap(k, triggerTap, dt) ==
    IF k.slideActive /\ k.slideBoosts >= 0 /\ k.slideBoosts < 3
    THEN LET timer == k.slideTimer + dt
             k1 == IF triggerTap
                   THEN [k EXCEPT !.boostCharge = k.slideBoosts + 1,
                                  !.slideBoosts = @ + 1, !.slideTimer = 0]
                   ELSE [k EXCEPT !.slideTimer = timer]
         IN  [(IF timer > slideMeterDuration THEN [k1 EXCEPT !.slideBoosts = -1] ELSE k1)
                 EXCEPT !.meter = timer]
    ELSE [k EXCEPT !.meter = -1]

\* during the slide: meter and boost trigger, then meter overflow
SlideMeter(k, triggerTap, dt) ==
    IF k.slideActive /\ k.slideBoosts >= 0 /\ k.slideBoosts < 3
    THEN LET timer == k.slideTimer + dt
             k1 == IF triggerTap
                   THEN IF InSweetSpot(timer, k.slideBoosts)
                        THEN [k EXCEPT !.boostCharge = k.slideBoosts + 1,
                                       !.slideBoosts = @ + 1, !.slideTimer = 0]
                        ELSE [k EXCEPT !.slideBoosts = -1, !.slideTimer = timer]
                   ELSE [k EXCEPT !.slideTimer = timer]
         IN  [(IF timer > slideMeterDuration THEN [k1 EXCEPT !.slideBoosts = -1] ELSE k1)
                 EXCEPT !.meter = timer]
    ELSE [k EXCEPT !.meter = -1]

\* the respawn at the end of update
Respawn(k) ==
    [k EXCEPT !.slideActive = FALSE, !.slideButton = "none", !.slideTimer = 0,
              !.slideBoosts = 0, !.boostCharge = 0]

KartPhysicsUpdate(k, input, dt, onGround, fell) ==
    LET triggerTap == IF k.slideButton = "z" THEN input.hopXTap
                      ELSE IF k.slideButton = "x" THEN input.hopZTap
                      ELSE FALSE
        hopped == (input.hopZTap \/ input.hopXTap) /\ k.grounded /\ ~k.slideActive
        k1 == SlideMeter(SlideEnd(SlideEntry(HopInit(k, input), input), input), triggerTap, dt)
        k2 == [k1 EXCEPT !.grounded = IF hopped THEN FALSE ELSE onGround]
    IN  [(IF fell THEN Respawn(k2) ELSE k2) EXCEPT !.input = input, !.op = "update"]

\* a TNT or missile hit between updates
explodeKart(k) ==
    [k EXCEPT !.grounded = FALSE, !.slideActive = FALSE, !.slideButton = "none",
              !.slideTimer = 0, !.slideBoosts = 0, !.boostCharge = 0,
              !.meter = -1, !.op = "explode"]

SlideUpdate(input, onGround, fell) ==
    /\ ks' = KartPhysicsUpdate(ks, input, MaxFrameMs, onGround, fell)
    /\ UNCHANGED <<serverVars, gc, ib, rm, pred, srv, kartVars, itemVars>>

SlideExplode ==
    /\ ks' = explodeKart(ks)
    /\ UNCHANGED <<serverVars, gc, ib, rm, pred, srv, kartVars, itemVars>>

(***************************************************************************)
(* KartPhysics.update, speed and vertical motion (game/src/physics.js).    *)
(* Every update lasts MaxFrameMs.  Speeds are hundredths of a unit per     *)
(* second, heights and vertical speeds ten-thousandths, so every step of   *)
(* the update is exact except the products with 0.7, 0.3 and the cosine,   *)
(* which round toward zero.  The kart moves along one line: velF is its     *)
(* horizontal velocity along the heading it had when the velocity was last *)
(* composed, turn the number of steered airborne updates since then, so    *)
(* the landing projection vel . forward is velF * cos(turn * 0.04875).     *)
(* h is position.y minus the ground height under the kart.  The track      *)
(* (terrain type, slope, change of ground height under the kart, steep     *)
(* ground, obstacles), the power slide and falling off the map are the     *)
(* environment's choice; the lateral slide velocity is outside the model.  *)
(* resGrounded and resVy record grounded and velocity.y immediately after  *)
(* the ground check; gy is the ground height under the kart, which the     *)
(* heightmap keeps within -HEIGHT_SCALE .. HEIGHT_SCALE.                   *)
(***************************************************************************)
maxSpeed == 3500

HEIGHT_SCALE == 200000

SpawnHeight == 0

accelStep == 90        \* accel * dt

brakeStep == 125       \* brakeForce * dt

frictionStep == 40     \* friction * dt

boostDecayStep == 75   \* 15 * dt

hopForce == 40000

GRAVITY_STEP == 12500  \* -GRAVITY * dt

GROUND_SNAP == 4000

boostSpeeds == <<1000, 1500, 2000>>

boostDurations == <<500, 800, 1200>>

\* server-boost-pads.js
BOOST_SPEED == 2000

BOOST_DURATION == 1200

\* round(100 * cos(n * turnRate * 1.5 * dt)), n = 0 .. 48
CosTable ==
    <<100, 100, 100, 99, 98, 97, 96, 94, 92, 91, 88, 86, 83, 81, 78, 74, 71, 68,
      64, 60, 56, 52, 48, 43, 39, 34, 30, 25, 20, 16, 11, 6, 1, -4, -9, -14, -18,
      -23, -28, -32, -37, -42, -46, -50, -54, -58, -62, -66, -70>>

Cos100(turn) == CosTable[turn + 1]

\* x * num / den, rounded toward zero
MulDiv(x, num, den) == Sign(x) * ((Abs(x) * num) \div den)

Clamp(x, lo, hi) == IF x < lo THEN lo ELSE IF x > hi THEN hi ELSE x

NoKp ==
    [speed |-> 0, boostSpeed |-> 0, boostTimer |-> 0, grounded |-> FALSE,
     velF |-> 0, turn |-> 0, vy |-> 0, h |-> 10000, gy |-> SpawnHeight,
     resGrounded |-> FALSE, resVy |-> 0, frames |-> 0, op |-> "none"]

\* hop initiation
KpHop(k, input, env) ==
    IF input.hopTap /\ k.grounded /\ ~env.slide
    THEN [k EXCEPT !.vy = hopForce, !.h = @ + GROUND_SNAP + 1000, !.grounded = FALSE]
    ELSE k

\* a boost fired from the sweet spot of the slide meter
KpSlideBoost(k, env) ==
    IF env.slide /\ env.charge > 0
    THEN [k EXCEPT !.boostTimer = boostDurations[env.charge],
                   !.boostSpeed = boostSpeeds[env.charge]]
    ELSE k

\* active boost: full power while the timer runs, then decay
KpBoostDecay(k) ==
    IF k.boostTimer > 0
    THEN [k EXCEPT !.boostTimer = IF @ - MaxFrameMs < 0 THEN 0 ELSE @ - MaxFrameMs]
    ELSE IF k.boostSpeed > 0
         THEN [k EXCEPT !.boostSpeed = IF @ - boostDecayStep < 0 THEN 0
                                        ELSE @ - boostDecayStep]
         ELSE k

\* steering: in the air the kart rotates freely, away from its velocity
KpSteer(k, input) ==
    IF ~k.grounded THEN [k EXCEPT !.turn = @ + input.steer] ELSE k

\* slope, acceleration / braking, friction, offroad drag
KpDrive(k, input, env) ==
    LET offroad == k.grounded /\ env.terrain = 1
        s1 == IF k.grounded THEN k.speed - env.slope ELSE k.speed
        s2 == IF input.accel > 0
              THEN s1 + (IF offroad THEN accelStep \div 2 ELSE accelStep)
              ELSE IF input.accel < 0 THEN s1 - brakeStep ELSE s1
        fr == IF env.slide THEN (frictionStep * 4) \div 10 ELSE frictionStep
        s3 == IF input.accel = 0
              THEN LET t == s2 - Sign(s2) * fr IN IF Abs(t) < 30 THEN 0 ELSE t
              ELSE s2
    IN  IF offroad /\ Abs(s3) > 10 THEN s3 - Sign(s3) * 15 ELSE s3

\* speed limit, then the speed floor of an active boost
KpSpeedLimit(k, speed, env) ==
    LET offroad == k.grounded /\ env.terrain = 1
        maxSpd == IF offroad THEN (maxSpeed * 6) \div 10 ELSE maxSpeed
        limited == Clamp(speed, -((maxSpd * 4) \div 10), maxSpd + k.boostSpeed)
        floor == maxSpd + (k.boostSpeed * 8) \div 10
    IN  IF k.boostSpeed > 0 /\ limited < floor THEN floor ELSE limited

\* compose velocity, gravity, move
KpMove(k, env) ==
    LET vy == IF k.grounded THEN 0 ELSE k.vy - GRAVITY_STEP
    IN  [k EXCEPT !.velF = IF k.grounded THEN k.speed ELSE @,
                  !.turn = IF k.grounded THEN 0 ELSE @,
                  !.vy = vy,
                  !.h = @ + vy \div 20 - env.delta,
                  !.gy = @ + env.delta]

\* inaccessible terrain at the new position, blocked on both axes
KpWall(k, env) ==
    IF env.wall
    THEN [k EXCEPT !.velF = 0, !.speed = MulDiv(@, 7, 10),
                   !.h = @ + env.delta, !.gy = @ - env.delta]
    ELSE k

\* ground check: too steep, landing or staying on the ground, airborne
KpGround(k, env) ==
    IF k.h <= GROUND_SNAP
    THEN IF env.steep
         THEN [(IF env.into THEN [k EXCEPT !.velF = 0, !.speed = MulDiv(@, 3, 10)] ELSE k)
                  EXCEPT !.grounded = FALSE]
         ELSE LET projected == MulDiv(k.velF * Cos100(k.turn), 1, 100)
                  landed == IF Abs(projected) > Abs(k.speed)
                            THEN Sign(projected) * Abs(k.speed) ELSE projected
              IN  [k EXCEPT !.h = 200, !.vy = IF @ < 0 THEN 0 ELSE @,
                            !.grounded = TRUE,
                            !.speed = IF k.grounded THEN @ ELSE landed]
    ELSE [k EXCEPT !.grounded = FALSE]

\* _resolveObstacleCollisions: a head-on hit of an obstacle's side
KpObstacle(k, env) ==
    IF env.obstacle /\ k.velF # 0
    THEN [k EXCEPT !.velF = -MulDiv(@, 1, 5), !.speed = MulDiv(@, 7, 10)]
    ELSE k

\* respawn if fallen off the map
KpRespawn(k, env) ==
    IF env.fell
    THEN [k EXCEPT !.h = 10000, !.gy = SpawnHeight, !.velF = 0, !.vy = 0, !.speed = 0,
                   !.boostTimer = 0, !.boostSpeed = 0]
    ELSE k

KpUpdate(k, input, env) ==
    LET k1 == KpSteer(KpBoostDecay(KpSlideBoost(KpHop(k, input, env), env)), input)
        k2 == [k1 EXCEPT !.speed = KpSpeedLimit(k1, KpDrive(k1, input, env), env)]
        k3 == KpGround(KpWall(KpMove(k2, env), env), env)
        k4 == [k3 EXCEPT !.resGrounded = k3.grounded, !.resVy = k3.vy]
    IN  [KpRespawn(KpObstacle(k4, env), env) EXCEPT !.frames = @ + 1, !.op = "update"]

\* the pad trigger of createServerBoostPads.update, between two updates
KpPadBoost(k) ==
    [k EXCEPT !.boostTimer = BOOST_DURATION, !.boostSpeed = BOOST_SPEED, !.op = "pad"]

\* explodeKart, between two updates
KpExplode(k) ==
    [k EXCEPT !.velF = 0, !.vy = 200000, !.h = @ + 5000, !.speed = 0,
              !.grounded = FALSE, !.boostTimer = 0, !.boostSpeed = 0,
              !.op = "explode"]

QuietKartEnv ==
    [terrain |-> 0, slide |-> FALSE, charge |-> 0, slope |-> 0, delta |-> 0,
     wall |-> FALSE, steep |-> FALSE, into |-> FALSE, obstacle |-> FALSE,
     fell |-> FALSE]

\* the tracks' effects on one update: the quiet road, or one effect at a time
KartEnvs ==
    {QuietKartEnv}
      \cup {[QuietKartEnv EXCEPT !.terrain = 1]}
      \cup {[QuietKartEnv EXCEPT !.slide = TRUE, !.charge = c] : c \in 0..3}
      \cup {[QuietKartEnv EXCEPT !.slope = s] : s \in {-50, 50}}
      \cup {[QuietKartEnv EXCEPT !.delta = d] : d \in {-GroundDrop, GroundRise}}
      \cup {[QuietKartEnv EXCEPT !.wall = TRUE]}
      \cup {[QuietKartEnv EXCEPT !.steep = TRUE, !.into = b] : b \in BOOLEAN}
      \cup {[QuietKartEnv EXCEPT !.obstacle = TRUE]}
      \cup {[QuietKartEnv EXCEPT !.fell = TRUE]}

KartInputs == [accel : {-1, 0, 1}, steer : {0, 1}, hopTap : BOOLEAN]

\* what the track can do to a kart in this state: the power slide needs the
\* ground, the ground height changes under a kart that moves fast enough
\* (a rise of GroundRise in one update is a slope of 0.6 at 17 units/s), the
\* map is left in the air
EnvFits(k, env) ==
    /\ env.slide => k.grounded
    /\ env.delta # 0 => Abs(k.velF) >= 1700 \/ Abs(k.speed) >= 1700
    /\ k.gy + env.delta >= -HEIGHT_SCALE /\ k.gy + env.delta <= HEIGHT_SCALE
    /\ env.fell => ~k.grounded

KartFrame(input, env) ==
    /\ kp.frames < MaxKartFrames
    /\ EnvFits(kp, env)
    /\ kp.turn + input.steer <= MaxAirTurn
    /\ kp' = KpUpdate(kp, input, env)
    /\ UNCHANGED <<serverVars, gc, ib, rm, pred, srv, ks, bp, ms, itemVars>>

KartPad ==
    /\ kp.op = "update"
    /\ kp' = KpPadBoost(kp)
    /\ UNCHANGED <<serverVars, gc, ib, rm, pred, srv, ks, bp, ms, itemVars>>

KartExplode ==
    /\ kp.op = "update"
    /\ kp' = KpExplode(kp)
    /\ UNCHANGED <<serverVars, gc, ib, rm, pred, srv, ks, bp, ms, itemVars>>

(***************************************************************************)
(* createServerBoostPads (server/server-boost-pads.js): two pads whose     *)
(* trigger circles overlap, and PadKarts karts.  A cooldown is counted in  *)
(* updates of TICK_DT = 1/TICK_RATE seconds; 0 stands for no entry in the  *)
(* pad's cooldown map.  Between two pad updates the tick's physics moves   *)
(* the karts and may let a boost run out or clear it.                      *)
(***************************************************************************)
PAD_TRIGGER_RADIUS == 4

PAD_COOLDOWN == 90     \* 1.5 s * TICK_RATE

PadAt == <<Pt(0, 0), Pt(6, 0)>>

PadIds == 1..Len(PadAt)

PadKartIds == 1..PadKarts

\* where the physics can put a kart: on pad 1, inside both circles, on the rim
\* of pad 1's circle (inside pad 2's), on pad 2, far from both
PadKartPoints(k) ==
    IF k = 1 THEN {Pt(0, 0), Pt(3, 0), Pt(4, 0), Pt(6, 0), Pt(20, 0)}
    ELSE {Pt(0, 0), Pt(20, 0)}

NoBoost == [boostSpeed |-> 0, boostTimer |-> 0]

NoBp ==
    [cooldowns |-> [p \in PadIds |-> [k \in PadKartIds |-> 0]],
     boost |-> [k \in PadKartIds |-> NoBoost],
     pos |-> [k \in PadKartIds |-> Pt(20, 0)],
     events |-> <<>>, ticks |-> 0, op |-> "pads"]

\* the cooldown loop of one pad
padCountDown(cd) ==
    [k \in DOMAIN cd |-> IF cd[k] = 0 \/ cd[k] - 1 <= 0 THEN 0 ELSE cd[k] - 1]

padTriggers_ignoreCooldown(b, p, k) ==
    Dist2(b.pos[k], PadAt[p]) < PAD_TRIGGER_RADIUS * PAD_TRIGGER_RADIUS

\* the kart loop of one pad: kart k triggers pad p
padTriggers(b, p, k) ==
    /\ padCountDown(b.cooldowns[p])[k] = 0
    /\ Dist2(b.pos[k], PadAt[p]) < PAD_TRIGGER_RADIUS * PAD_TRIGGER_RADIUS

\* (pad, kart) pairs in the order of the two loops
PadPairs ==
    [i \in 1..(Len(PadAt) * PadKarts) |->
        [pad |-> ((i - 1) \div PadKarts) + 1, kart |-> ((i - 1) % PadKarts) + 1]]

boostPadsUpdate(b) ==
    LET hits == SelectSeq(PadPairs, LAMBDA pr : padTriggers(b, pr.pad, pr.kart))
    IN  [b EXCEPT
           !.cooldowns = [p \in PadIds |-> [k \in PadKartIds |->
                             IF padTriggers(b, p, k) THEN PAD_COOLDOWN
                             ELSE padCountDown(b.cooldowns[p])[k]]],
           !.boost = [k \in PadKartIds |->
                         IF \E p \in PadIds : padTriggers(b, p, k)
                         THEN [boostSpeed |-> BOOST_SPEED, boostTimer |-> BOOST_DURATION]
                         ELSE b.boost[k]],
           !.events = [i \in 1..Len(hits) |-> [type |-> "boost_pad", kartId |-> hits[i].kart]],
           !.op = "pads"]

\* what physics does to a boost in the ticks between two pad updates
BoostAfterPhysics(bst) ==
    {bst, [bst EXCEPT !.boostTimer = 0], NoBoost}

PadPhysics(pos, boost) ==
    /\ bp.op = "pads"
    /\ bp.ticks < MaxPadTicks
    /\ \A k \in PadKartIds :
          pos[k] \in PadKartPoints(k) /\ boost[k] \in BoostAfterPhysics(bp.boost[k])
    /\ bp' = [bp EXCEPT !.pos = pos, !.boost = boost, !.ticks = @ + 1, !.op = "physics"]
    /\ UNCHANGED <<serverVars, gc, ib, rm, pred, srv, ks, kp, ms, itemVars>>

PadUpdate ==
    /\ bp.op = "physics"
    /\ bp' = boostPadsUpdate(bp)
    /\ UNCHANGED <<serverVars, gc, ib, rm, pred, srv, ks, kp, ms, itemVars>>

(***************************************************************************)
(* createServerMissileSystem (server/server-boost-pads.js).  Lengths are   *)
(* twelfths of a unit, times are updates of TICK_DT, and a heading is a    *)
(* whole number of turn steps of TURN_RATE * TICK_DT = 0.03 rad, so        *)
(* 100 * sin is 3 per step and 100 * cos is 100 for the few steps the      *)
(* model allows.  A target less than half a step off the heading does not  *)
(* turn the missile.  Kart 1 is the owner; the other karts are wherever    *)
(* the physics has put them when the update runs, given by their offset    *)
(* from the missile.  seen, turned and removed are history: the karts that *)
(* have been inside the missile's cone, whether its heading has changed,   *)
(* and how it left the list.                                               *)
(***************************************************************************)
MISSILE_STEP == 11     \* MISSILE_SPEED * TICK_DT

HIT_RADIUS == 30

LIFETIME == 360

SpawnDist == 30

MissileKartIds == 1..MissileKarts

MissileTargets == MissileKartIds \ {1}

Round100(v) == Sign(v) * ((Abs(v) + 50) \div 100)

fwdX(a) == -3 * a

fwdZ(a) == -100

\* fire: the missile starts spawnDist ahead of the owner, heading as the owner
missileFire(owner) ==
    [ownerId |-> 1, angle |-> 0, lifetime |-> LIFETIME,
     x |-> owner.x + Round100(SpawnDist * fwdX(0)),
     z |-> owner.z + Round100(SpawnDist * fwdZ(0))]

\* dot >= CONE_COS = cos(60 degrees) = 1/2, for a kart further than 0.1 away
InCone(m, kart) ==
    LET dx == kart.x - m.x
        dz == kart.z - m.z
        d  == dx * fwdX(m.angle) + dz * fwdZ(m.angle)
    IN  /\ 100 * Dist2(kart, m) >= 144
        /\ d >= 0
        /\ 4 * d * d >= 10000 * Dist2(kart, m)

\* the closest kart in front of the missile, the first of them in array order
ConeKarts(m, karts) == {k \in MissileTargets : InCone(m, karts[k])}

closestTarget(m, karts) ==
    CHOOSE k \in ConeKarts(m, karts) :
        \A j \in ConeKarts(m, karts) :
            \/ Dist2(karts[k], m) < Dist2(karts[j], m)
            \/ Dist2(karts[k], m) = Dist2(karts[j], m) /\ k <= j

\* steer toward the target: the sign of angleDiff, one turn step at most
missileSteer(m, karts) ==
    IF ConeKarts(m, karts) = {} THEN 0
    ELSE LET t     == karts[closestTarget(m, karts)]
             dx    == t.x - m.x
             dz    == t.z - m.z
             cross == dx * fwdZ(m.angle) - dz * fwdX(m.angle)
             d     == dx * fwdX(m.angle) + dz * fwdZ(m.angle)
         IN  IF 1000 * Abs(cross) >= 15 * d THEN Sign(cross) ELSE 0

missileMove(m, turn) ==
    [m EXCEPT !.angle = @ + turn,
              !.x = @ + Round100(MISSILE_STEP * fwdX(m.angle + turn)),
              !.z = @ + Round100(MISSILE_STEP * fwdZ(m.angle + turn))]

\* hit detection: the karts other than the owner within HIT_RADIUS
missileHits(m, karts) ==
    {k \in MissileTargets : Dist2(karts[k], m) < HIT_RADIUS * HIT_RADIUS}

NoMs ==
    [active |-> <<>>, karts |-> [k \in MissileKartIds |-> Pt(0, 0)],
     events |-> <<>>, seen |-> {}, turned |-> FALSE, removed |-> "none",
     ticks |-> 0, op |-> "none"]

missileUpdate(s, karts) ==
    IF s.active = <<>>
    THEN [s EXCEPT !.karts = karts, !.events = <<>>, !.op = "update"]
    ELSE LET m0   == [s.active[1] EXCEPT !.lifetime = @ - 1]
             m1   == missileMove(m0, missileSteer(m0, karts))
             hits == missileHits(m1, karts)
             hit  == CHOOSE k \in hits : \A j \in hits : k <= j
         IN  IF m0.lifetime <= 0
             THEN [s EXCEPT !.active = <<>>, !.karts = karts, !.events = <<>>,
                            !.removed = "expired", !.op = "update"]
             ELSE [s EXCEPT
                     !.active = IF hits = {} THEN <<m1>> ELSE <<>>,
                     !.karts = karts,
                     !.events = IF hits = {} THEN <<>>
                                ELSE <<[type |-> "missile_hit", kartId |-> hit]>>,
                     !.seen = @ \cup ConeKarts(m0, karts),
                     !.turned = @ \/ m1.angle # m0.angle,
                     !.removed = IF hits = {} THEN "none" ELSE "hit",
                     !.op = "update"]

\* offsets of a target from the missile: beside it, close ahead, ahead and
\* 45 degrees to the side, behind it
TargetOffsets == {Pt(24, 0), Pt(0, -36), Pt(-60, -60), Pt(120, 120)}

MsFire ==
    /\ ms.active = <<>>
    /\ ms.removed = "none"
    /\ ms' = [ms EXCEPT !.active = <<missileFire(ms.karts[1])>>, !.op = "fire"]
    /\ UNCHANGED <<serverVars, gc, ib, rm, pred, srv, ks, kp, bp, itemVars>>

MsUpdate(offsets) ==
    /\ ms.ticks < MaxMissileTicks
    /\ \E base \in {IF ms.active = <<>> THEN Pt(0, 0)
                    ELSE Pt(ms.active[1].x, ms.active[1].z)} :
          ms' = [missileUpdate(ms, [k \in MissileKartIds |->
                                       IF k = 1 THEN ms.karts[1]
                                       ELSE Pt(base.x + offsets[k].x, base.z + offsets[k].z)])
                    EXCEPT !.ticks = @ + 1]
    /\ UNCHANGED <<serverVars, gc, ib, rm, pred, srv, ks, kp, bp, itemVars>>

(***************************************************************************)
(* InterpolationBuffer, the kart states: push and the interpolation of     *)
(* getInterpolatedState.  A kart state is its id, x and grounded; times    *)
(* are whole ms.  An interpolated number is the fraction n / d, so that    *)
(* from + (to - from) * t is exact.                                        *)
(***************************************************************************)
Frac(n, d) == [n |-> n, d |-> d]

SnapKart(id, x) == [id |-> id, x |-> x, grounded |-> x = 0]

\* push, lines 13-31: the arrival time and the karts are stored, the oldest
\* snapshot is dropped when there are more than 30
pushKarts(snaps, karts, now) ==
    LET s == Append(snaps, [serverTime |-> now, karts |-> karts])
    IN  IF Len(s) > MaxSnapshots THEN Tail(s) ELSE s

\* lines 51-64: the index of `to`; `from` is the one before it
lerpTo(snaps, renderTime) ==
    LET later == {i \in 2..Len(snaps) : snaps[i].serverTime > renderTime}
    IN  IF later = {} THEN Len(snaps) ELSE CHOOSE i \in later : \A j \in later : i <= j

\* variant: the factor is not clamped
lerpT_unclamped(from, to, renderTime) ==
    LET range == to.serverTime - from.serverTime
    IN  IF range > 0 THEN Frac(renderTime - from.serverTime, range) ELSE Frac(1, 1)

\* lines 66-67
lerpT(from, to, renderTime) ==
    LET range == to.serverTime - from.serverTime
    IN  IF range > 0
        THEN Frac(IF renderTime - from.serverTime < 0 THEN 0
                  ELSE IF renderTime - from.serverTime > range THEN range
                  ELSE renderTime - from.serverTime, range)
        ELSE Frac(1, 1)

\* lines 70-91 for one kart of `to`
lerpKart(fromKarts, toK, t) ==
    LET same == {i \in 1..Len(fromKarts) : fromKarts[i].id = toK.id}
    IN  IF same = {}
        THEN [id |-> toK.id, x |-> Frac(toK.x, 1), grounded |-> toK.grounded]
        ELSE LET fromK == fromKarts[CHOOSE i \in same : \A j \in same : i <= j]
             IN  [id |-> toK.id,
                  x |-> Frac(fromK.x * t.d + (toK.x - fromK.x) * t.n, t.d),
                  grounded |-> IF 2 * t.n >= t.d THEN toK.grounded ELSE fromK.grounded]

\* karts handed out as they are buffered
RawKarts(karts) ==
    [i \in 1..Len(karts) |->
        [id |-> karts[i].id, x |-> Frac(karts[i].x, 1), grounded |-> karts[i].grounded]]

\* getInterpolatedState: <<>> is null, else the karts and t of the result
interpolatedKarts(snaps, now) ==
    IF Len(snaps) = 0 THEN <<>>
    ELSE IF Len(snaps) = 1 THEN <<[karts |-> RawKarts(snaps[1].karts), t |-> Frac(1, 1)]>>
    ELSE LET renderTime == now - INTERP_DELAY
             i    == lerpTo(snaps, renderTime)
             from == snaps[i - 1]
             to   == snaps[i]
             t    == lerpT(from, to, renderTime)
         IN  <<[karts |-> [k \in 1..Len(to.karts) |-> lerpKart(from.karts, to.karts[k], t)],
                t |-> t]>>

NoLb ==
    [snapshots |-> <<>>, now |-> 0, ret |-> <<>>, op |-> "none", pushes |-> 0, steps |-> 0]

\* the karts a snapshot may carry
LbKarts ==
    {<<SnapKart(1, 0)>>, <<SnapKart(1, 8)>>, <<SnapKart(1, 8), SnapKart(2, 0)>>}

\* a snapshot message arrives
LbPush(karts) ==
    /\ lb.pushes < MaxLerpPushes
    /\ lb' = [lb EXCEPT !.snapshots = pushKarts(@, karts, lb.now),
                        !.pushes = @ + 1, !.op = "push"]
    /\ UNCHANGED <<serverVars, gc, ib, rm, pred, srv, ks, kartVars, tn, bx, bc>>

\* a frame of the client loop reads the buffer
LbGet ==
    /\ lb' = [lb EXCEPT !.ret = interpolatedKarts(lb.snapshots, lb.now), !.op = "get"]
    /\ UNCHANGED <<serverVars, gc, ib, rm, pred, srv, ks, kartVars, tn, bx, bc>>

\* performance.now() moves on
LbAdvance ==
    /\ lb.steps < MaxLerpSteps
    /\ lb' = [lb EXCEPT !.now = @ + LerpStep, !.steps = @ + 1, !.op = "advance"]
    /\ UNCHANGED <<serverVars, gc, ib, rm, pred, srv, ks, kartVars, tn, bx, bc>>


(***************************************************************************)
(* createServerTNTSystem (game/src/boost-pad.js).  Lengths are in half     *)
(* world units, times in ticks of 1/60 s, karts face -z (rotation.y = 0).  *)
(* A placed TNT carries a number of its own (tid) for the history.         *)
(***************************************************************************)
TNT_TRIGGER_RADIUS == 5      \* 2.5 units
TNT_EXPLODE_VEL_Y == 22
TNT_LIFETIME == 1800         \* 30 s
TNT_IMMUNE == 48             \* 0.8 s
TNT_BEHIND == 6              \* 3 units

TnKartIds == 1..TnKarts

\* a kart as physics leaves it while it drives, slides and is boosted
TnDriving(p) ==
    [pos |-> p, speed |-> 35, vy |-> 0, grounded |-> TRUE, slideActive |-> TRUE,
     slideBoosts |-> 1, boostSpeed |-> 20, boostTimer |-> 72]

\* explodeKart, lines 180-194
tntExplodeKart(kart) ==
    [kart EXCEPT !.vy = TNT_EXPLODE_VEL_Y, !.speed = 0, !.grounded = FALSE,
                 !.slideActive = FALSE, !.slideBoosts = 0,
                 !.boostTimer = 0, !.boostSpeed = 0]

\* place, lines 125-140
tntPlace(placed, karts, k, tid) ==
    Append(placed, [x |-> karts[k].pos.x, z |-> karts[k].pos.z + TNT_BEHIND, ownerId |-> k,
                    immuneTimer |-> TNT_IMMUNE, lifetime |-> TNT_LIFETIME, tid |-> tid])

\* lines 147-148
tntAge(tnt) ==
    [tnt EXCEPT !.lifetime = @ - 1,
                !.immuneTimer = IF @ > 0 THEN @ - 1 ELSE @]

\* variant: the owner is not spared
tntVictims_noImmunity(tnt, karts) ==
    {k \in TnKartIds :
        Dist2(karts[k].pos, Pt(tnt.x, tnt.z)) < TNT_TRIGGER_RADIUS * TNT_TRIGGER_RADIUS}

\* lines 156-161: the karts the aged TNT can trigger on
tntVictims(tnt, karts) ==
    {k \in TnKartIds :
        /\ ~(tnt.immuneTimer > 0 /\ k = tnt.ownerId)
        /\ Dist2(karts[k].pos, Pt(tnt.x, tnt.z)) < TNT_TRIGGER_RADIUS * TNT_TRIGGER_RADIUS}

\* update, lines 142-175: the TNTs from the last placed to the first; st holds
\* the TNTs kept so far, the karts and the events
RECURSIVE tntUpdateFrom(_, _, _)
tntUpdateFrom(placed, i, st) ==
    IF i = 0 THEN st
    ELSE LET tnt == tntAge(placed[i])
             hit == tntVictims(tnt, st.karts)
         IN  IF tnt.lifetime <= 0 THEN tntUpdateFrom(placed, i - 1, st)
             ELSE IF hit = {}
             THEN tntUpdateFrom(placed, i - 1, [st EXCEPT !.placed = <<tnt>> \o @])
             ELSE LET k == CHOOSE m \in hit : \A n \in hit : m <= n
                  IN  tntUpdateFrom(placed, i - 1,
                         [st EXCEPT !.karts[k] = tntExplodeKart(@),
                                    !.events = Append(@, [type |-> "tnt_detonate",
                                                          kartId |-> k, tid |-> tnt.tid])])

tntUpdate(placed, karts) ==
    tntUpdateFrom(placed, Len(placed), [placed |-> <<>>, karts |-> karts, events |-> <<>>])

NoTn ==
    [placed |-> <<>>, karts |-> [k \in TnKartIds |-> TnDriving(Pt(0, 0))], events |-> <<>>,
     before |-> <<>>, nextTid |-> 1, ticks |-> 0, op |-> "none"]

TnPoints == {Pt(0, 0), Pt(0, 6), Pt(0, 10)}

\* one tick of the room as the TNT system sees it: physics has moved the
\* karts, kart `placer` (0: nobody) uses a TNT, then tntSystem.update runs.
\* `before` keeps the TNTs the update started from.
TnTick(pos, placer) ==
    /\ tn.ticks < MaxTnTicks
    /\ pos \in [TnKartIds -> TnPoints]
    /\ placer \in 0..TnKarts
    /\ placer # 0 => tn.nextTid <= MaxTnts
    /\ LET karts  == [k \in TnKartIds |-> TnDriving(pos[k])]
           placed == IF placer = 0 THEN tn.placed
                     ELSE tntPlace(tn.placed, karts, placer, tn.nextTid)
           r      == tntUpdate(placed, karts)
       IN  tn' = [placed |-> r.placed, karts |-> r.karts, events |-> r.events,
                  before |-> placed,
                  nextTid |-> IF placer = 0 THEN tn.nextTid ELSE tn.nextTid + 1,
                  ticks |-> tn.ticks + 1, op |-> "tick"]
    /\ UNCHANGED <<serverVars, gc, ib, rm, pred, srv, ks, kartVars, lb, bx, bc>>


(***************************************************************************)
(* createServerItemBoxes (server/server-items.js).  Lengths are in world   *)
(* units, times in ticks of 1/60 s.                                        *)
(***************************************************************************)
PICKUP_RADIUS == 4
RESPAWN_TIME == 300          \* 5 s
AVAILABLE_ITEMS == <<"boost", "tnt", "missile">>

BoxAt == <<Pt(0, 0), Pt(6, 0)>>

BoxIds == 1..Len(BoxAt)

BxKartIds == 1..BxKarts

\* variant: a kart that holds an item picks up as well
boxTaker_ignoreHeld(b, karts) ==
    LET near == {k \in BxKartIds :
                    Dist2(karts[k].pos, BoxAt[b]) < PICKUP_RADIUS * PICKUP_RADIUS}
    IN  IF near = {} THEN 0 ELSE CHOOSE m \in near : \A n \in near : m <= n

\* lines 31-36: the first kart that holds nothing and is inside the radius (0: none)
boxTaker(b, karts) ==
    LET near == {k \in BxKartIds :
                    /\ karts[k].heldItem = "none"
                    /\ Dist2(karts[k].pos, BoxAt[b]) < PICKUP_RADIUS * PICKUP_RADIUS}
    IN  IF near = {} THEN 0 ELSE CHOOSE m \in near : \A n \in near : m <= n

\* update, lines 22-46: the boxes in order; roll[b] is the index box b's
\* Math.random() gives
RECURSIVE boxesUpdateFrom(_, _, _)
boxesUpdateFrom(b, roll, st) ==
    IF b > Len(BoxAt) THEN st
    ELSE IF st.timers[b] > 0
    THEN boxesUpdateFrom(b + 1, roll, [st EXCEPT !.timers[b] = @ - 1])
    ELSE LET k == boxTaker(b, st.karts)
         IN  IF k = 0 THEN boxesUpdateFrom(b + 1, roll, st)
             ELSE boxesUpdateFrom(b + 1, roll,
                     [st EXCEPT !.karts[k].heldItem = AVAILABLE_ITEMS[roll[b]],
                                !.timers[b] = RESPAWN_TIME,
                                !.events = Append(@, [type |-> "item_pickup", kartId |-> k,
                                                      item |-> AVAILABLE_ITEMS[roll[b]],
                                                      boxIndex |-> b])])

boxesUpdate(timers, karts, roll) ==
    boxesUpdateFrom(1, roll, [timers |-> timers, karts |-> karts, events |-> <<>>])

NoBx ==
    [timers |-> [b \in BoxIds |-> 0],
     karts |-> [k \in BxKartIds |-> [pos |-> Pt(20, 0), heldItem |-> "none"]],
     events |-> <<>>,
     before |-> [timers |-> [b \in BoxIds |-> 0],
                 karts |-> [k \in BxKartIds |-> [pos |-> Pt(20, 0), heldItem |-> "none"]]],
     ticks |-> 0, op |-> "none"]

BxPoints == {Pt(0, 0), Pt(3, 0), Pt(20, 0)}

\* one tick as the item boxes see it: the karts in `used` have used their item
\* at the end of the tick before, physics has moved the karts, then
\* itemBoxes.update runs.  `before` keeps what the update started from.
BxTick(pos, used, roll) ==
    /\ bx.ticks < MaxBxTicks
    /\ pos \in [BxKartIds -> BxPoints]
    /\ used \in SUBSET BxKartIds
    /\ roll \in [BoxIds -> 1..Len(AVAILABLE_ITEMS)]
    /\ LET karts == [k \in BxKartIds |->
                       [pos |-> pos[k],
                        heldItem |-> IF k \in used THEN "none" ELSE bx.karts[k].heldItem]]
           r     == boxesUpdate(bx.timers, karts, roll)
       IN  bx' = [timers |-> r.timers, karts |-> r.karts, events |-> r.events,
                  before |-> [timers |-> bx.timers, karts |-> karts],
                  ticks |-> bx.ticks + 1, op |-> "tick"]
    /\ UNCHANGED <<serverVars, gc, ib, rm, pred, srv, ks, kartVars, lb, tn, bc>>


(***************************************************************************)
(* BotController.update with the steps of the room's tick that read and    *)
(* write what it uses.  Times are in ticks of 1/60 s, steer in tenths,     *)
(* accel in hundredths.  The kart faces -z (rotation.y = 0) and moves      *)
(* along x, its targets lie on the x axis, so the angle to the target is   *)
(* pi/2 (target on the left, tx < 0) or -pi/2.                             *)
(***************************************************************************)
STUCK_TICKS == 90            \* 1.5 s
REVERSE_TICKS == 48          \* 0.8 s
MIN_ITEM_DELAY == 30         \* 0.5 s
MAX_ITEM_DELAY == 120        \* 0.5 + 1.5 s, never drawn itself

BotCps == <<Pt(-40, 0), Pt(40, 0)>>

BotControllerNew(cps, kart) ==
    [checkpoints |-> cps, nextCP |-> 0, stuckTimer |-> 0, lastPos |-> Pt(0, 0),
     reversing |-> FALSE, reverseTimer |-> 0, itemUseDelay |-> 0,
     input |-> [accel |-> 0, steer |-> 0, itemUseTap |-> FALSE],
     kart |-> kart]

\* lines 62-70 for a target on the kart's z: angleDiff > 0
botTargetLeft(c) == CpAt(c.checkpoints, c.nextCP).x - c.kart.pos.x < 0

\* lines 52-59
botNextCP(c) ==
    IF Dist2(CpAt(c.checkpoints, c.nextCP), c.kart.pos) < 30 * 30
    THEN [c EXCEPT !.nextCP = (@ + 1) % Len(c.checkpoints)]
    ELSE c

\* lines 72-83: moved < 0.5 * dt holds of a kart that has not moved at all and
\* of no kart that has moved by a unit
botStuckDetect(c) ==
    [c EXCEPT !.stuckTimer = IF c.kart.pos = c.lastPos THEN @ + 1 ELSE 0,
              !.lastPos = c.kart.pos]

\* botReverse without the reset of the stuck timer at the end of a recovery
botReverse_keepsStuckTimer(c) ==
    [c EXCEPT !.reverseTimer = @ - 1,
              !.input.accel = -100,
              !.input.steer = IF botTargetLeft(c) THEN -5 ELSE 5,
              !.reversing = ~(c.reverseTimer - 1 <= 0)]

\* lines 86-95
botReverse(c) ==
    [c EXCEPT !.reverseTimer = @ - 1,
              !.input.accel = -100,
              !.input.steer = IF botTargetLeft(c) THEN -5 ELSE 5,
              !.reversing = ~(c.reverseTimer - 1 <= 0),
              !.stuckTimer = IF c.reverseTimer - 1 <= 0 THEN 0 ELSE @]

\* lines 97-101
botEnterReverse(c) == [c EXCEPT !.reversing = TRUE, !.reverseTimer = REVERSE_TICKS]

\* lines 103-113: steer = clamp(2.5 * (+-pi/2)), accel = 0.3 + 0.4 * (1 - 1/2)
botSteer(c) ==
    [c EXCEPT !.input.steer = IF botTargetLeft(c) THEN 10 ELSE -10,
              !.input.accel = 50]

\* lines 121-132; draw is the delay Math.random() gives, in ticks
botItemUse(c, draw) ==
    IF c.kart.heldItem = "none" THEN [c EXCEPT !.input.itemUseTap = FALSE]
    ELSE LET d == (IF c.itemUseDelay <= 0 THEN draw ELSE c.itemUseDelay) - 1
         IN  [c EXCEPT !.input.itemUseTap = d <= 0,
                       !.itemUseDelay = IF d <= 0 THEN 0 ELSE d]

\* variant: the item-use tap is lowered before the early returns
botUpdate_tapLowered(c, draw) ==
    IF Len(c.checkpoints) = 0
    THEN [c EXCEPT !.input.accel = 100, !.input.steer = 0]
    ELSE LET c1 == botStuckDetect(botNextCP(c))
         IN  IF c1.reversing THEN [botReverse(c1) EXCEPT !.input.itemUseTap = FALSE]
             ELSE IF c1.stuckTimer > STUCK_TICKS
             THEN [botEnterReverse(c1) EXCEPT !.input.itemUseTap = FALSE]
             ELSE botItemUse(botSteer(c1), draw)

\* BotController.update, lines 41-133
botUpdate(c, draw) ==
    IF Len(c.checkpoints) = 0
    THEN [c EXCEPT !.input.accel = 100, !.input.steer = 0]
    ELSE LET c1 == botStuckDetect(botNextCP(c))
         IN  IF c1.reversing THEN botReverse(c1)
             ELSE IF c1.stuckTimer > STUCK_TICKS THEN botEnterReverse(c1)
             ELSE botItemUse(botSteer(c1), draw)

\* bc: the controller, and history: the controller before the last update
\* (prev), whether the last tick's item activation used the item (consumed),
\* for how many ticks the item has been held (heldFor, at the consumption if
\* consumed), for how many updates in a row the tap has been up (tapRun), and
\* for how many updates in a row the kart has not moved (still)
NoBc ==
    [c |-> BotControllerNew(<<>>, [pos |-> Pt(0, 0), heldItem |-> "none"]),
     prev |-> BotControllerNew(<<>>, [pos |-> Pt(0, 0), heldItem |-> "none"]),
     consumed |-> FALSE, heldFor |-> 0, tapRun |-> 0, still |-> 0,
     ticks |-> 0, op |-> "none"]

BotPoints == {Pt(0, 0), Pt(1, 0)}

BotDelays == {MIN_ITEM_DELAY, MAX_ITEM_DELAY - 1}

\* one unfrozen tick of the room for one bot: the bot AI (step 2), physics
\* moves the kart to `to` (step 3), an item box gives it `pick` when it holds
\* nothing (step 6), the item is used when the tap is up (step 7); bot inputs
\* are not among the taps step 10 clears
BcTick(to, pick, draw) ==
    /\ bc.ticks < MaxBotTicks
    /\ to \in BotPoints
    /\ pick \in {"none", "boost"}
    /\ draw \in BotDelays
    /\ LET c1     == botUpdate(bc.c, draw)
           held   == bc.c.kart.heldItem
           picked == held = "none" /\ pick # "none"
           at7    == IF picked THEN pick ELSE held
           used   == c1.input.itemUseTap /\ at7 # "none"
       IN  bc' = [c |-> [c1 EXCEPT !.kart = [pos |-> to,
                                            heldItem |-> IF used THEN "none" ELSE at7]],
                  prev |-> bc.c,
                  consumed |-> used,
                  heldFor |-> IF picked THEN 0
                              ELSE IF held # "none" THEN bc.heldFor + 1 ELSE 0,
                  tapRun |-> IF c1.input.itemUseTap THEN bc.tapRun + 1 ELSE 0,
                  still |-> IF bc.c.kart.pos # bc.c.lastPos THEN 0
                            ELSE IF bc.prev.reversing /\ ~bc.c.reversing THEN 1
                            ELSE bc.still + 1,
                  ticks |-> bc.ticks + 1, op |-> "tick"]
    /\ UNCHANGED <<serverVars, gc, ib, rm, pred, srv, ks, kartVars, lb, tn, bx>>


\* the variables of the later specifications, idle
ItemIdle == lb = NoLb /\ tn = NoTn /\ bx = NoBx /\ bc = NoBc

KartIdle == kp = NoKp /\ bp = NoBp /\ ms = NoMs /\ ItemIdle

LaterIdle == rm = NoRm /\ pred = Prediction /\ srv = NoSrv /\ ks = NoKs /\ KartIdle

\* the lobby, the rooms, the client and the interpolation buffer, idle
ServerIdle ==
    /\ clients = [c \in Clients |-> [open |-> TRUE, roomId |-> NoRoom]]
    /\ rooms = <<>>
    /\ nextRoomId = 1
    /\ lastOp = NoOp
    /\ wire = [c \in Clients |-> NoWire]
    /\ hist = [r \in RoomIds |-> NoHist]
    /\ gc = NoGc
    /\ ib = NoIb

\* SpecLobby starts after the settled connections 1..NumSettled have created and
\* joined room 1 (in that order); they stay there and toggle ready, and
\* connection 1 may disconnect.  The other connections are free to create, join,
\* leave and close.
Settled == 1..NumSettled

RECURSIVE JoinedBy(_)
JoinedBy(n) == IF n = 0 THEN GameRoom ELSE addPlayer(JoinedBy(n - 1), n)

InitLobby ==
    /\ clients = [c \in Clients |->
                     [open |-> TRUE, roomId |-> IF c \in Settled THEN 1 ELSE NoRoom]]
    /\ rooms = [r \in {1} |-> JoinedBy(NumSettled)]
    /\ nextRoomId = 2
    /\ lastOp = NoOp
    /\ wire = [c \in Clients |-> NoWire]
    /\ hist = [r \in RoomIds |-> NoHist]
    /\ gc = NoGc
    /\ ib = NoIb
    /\ LaterIdle

NextLobby ==
    \/ \E c \in Clients \ Settled : LobbyCreate(c)
    \/ \E c \in Clients \ Settled, rid \in RoomIds : LobbyJoin(c, rid)
    \/ \E c \in Clients \ Settled : LobbyLeave(c)
    \/ \E c \in Clients : LobbyReady(c, MaxLobbyStarts)
    \/ \E c \in (Clients \ Settled) \cup {1} : Close(c)
    \/ \E r \in RoomIds : StartGameResume(r)

SpecLobby == InitLobby /\ [][NextLobby]_vars

(***************************************************************************)
(* SpecRoom: one room, started once by the ready players 1..NumRacers, at  *)
(* the snapshot tick that leaves FrozenLead frozen ticks before the first  *)
(* unfrozen one.  Nothing but the tick counter and the countdown changes   *)
(* in the frozen ticks before (no input has arrived yet).                  *)
(***************************************************************************)
FirstUnfrozenTick == COUNTDOWN_TICKS - TICK_RATE

RoomStartTick == FirstUnfrozenTick - 1 - FrozenLead

Racers == 1..NumRacers

RECURSIVE ReadyAll(_, _)
ReadyAll(room, n) == IF n = 0 THEN room ELSE toggleReady(ReadyAll(room, n - 1), n)

\* the room after its first n ticks, all of them frozen (n < FirstUnfrozenTick)
FrozenTicks(room, n) ==
    [room EXCEPT !.tick = n,
                 !.race = <<[countdownTimer |-> COUNTDOWN_TICKS - n,
                             countdownValue |-> CountdownValue(COUNTDOWN_TICKS - n)]>>]

StartedRoom ==
    FrozenTicks(startGameResume(startGameCall(ReadyAll(JoinedBy(NumRacers), NumRacers))),
                RoomStartTick)

InitRoom ==
    /\ clients = [c \in Clients |->
                     [open |-> TRUE, roomId |-> IF c \in Racers THEN 1 ELSE NoRoom]]
    /\ rooms = [r \in {1} |-> StartedRoom]
    /\ nextRoomId = 2
    /\ lastOp = NoOp
    /\ wire = [c \in Clients |->
                  IF c \in Racers
                  THEN [tick |-> RoomStartTick - (RoomStartTick % SNAPSHOT_INTERVAL),
                        lastInputSeq |-> 0, events |-> <<>>]
                  ELSE NoWire]
    /\ hist = [r \in RoomIds |->
                  IF r = 1
                  THEN [NoHist EXCEPT
                           !.nSnaps = RoomStartTick \div SNAPSHOT_INTERVAL,
                           !.lastSnap = RoomStartTick - (RoomStartTick % SNAPSHOT_INTERVAL),
                           !.prevSnap = RoomStartTick - (RoomStartTick % SNAPSHOT_INTERVAL)
                                        - SNAPSHOT_INTERVAL]
                  ELSE NoHist]
    /\ gc = NoGc
    /\ ib = NoIb
    /\ LaterIdle

RoomInputs ==
    {[accel |-> 1, hopTap |-> FALSE, itemUseTap |-> FALSE],
     [accel |-> 1, hopTap |-> TRUE, itemUseTap |-> FALSE],
     [accel |-> 1, hopTap |-> FALSE, itemUseTap |-> TRUE]}

\* Racer 1 is the one who sends input and may leave; the last racer may
\* disconnect.
NextRoom ==
    \/ \E seq \in 1..MaxSeq, input \in RoomInputs : InputMsg(1, seq, input)
    \/ LobbyLeave(1)
    \/ Close(NumRacers)
    \/ Tick(1, RoomStartTick + MaxRoomTicks)

SpecRoom == InitRoom /\ [][NextRoom]_vars

(***************************************************************************)
(* SpecRestart: room 1 with connections 1 and 2 in it; they toggle ready,  *)
(* loadMap resolves, the room ticks through its first snapshots.           *)
(***************************************************************************)
Starters == 1..2

InitRestart ==
    /\ clients = [c \in Clients |->
                     [open |-> TRUE, roomId |-> IF c \in Starters THEN 1 ELSE NoRoom]]
    /\ rooms = [r \in {1} |-> JoinedBy(2)]
    /\ nextRoomId = 2
    /\ lastOp = NoOp
    /\ wire = [c \in Clients |-> NoWire]
    /\ hist = [r \in RoomIds |-> NoHist]
    /\ gc = NoGc
    /\ ib = NoIb
    /\ LaterIdle

NextRestart ==
    \/ \E c \in Starters : LobbyReady(c, MaxStarts)
    \/ StartGameResume(1)
    \/ Tick(1, MaxRestartTick)

SpecRestart == InitRestart /\ [][NextRestart]_vars

(***************************************************************************)
(* SpecClient: frames of the client loop feed maybeSendInput.              *)
(* SpecInterp: snapshots arrive at, and frames read, the buffer.           *)
(***************************************************************************)
InitClient ==
    /\ clients = [c \in Clients |-> [open |-> TRUE, roomId |-> NoRoom]]
    /\ rooms = <<>>
    /\ nextRoomId = 1
    /\ lastOp = NoOp
    /\ wire = [c \in Clients |-> NoWire]
    /\ hist = [r \in RoomIds |-> NoHist]
    /\ gc = NoGc
    /\ ib = NoIb
    /\ LaterIdle

NextClient ==
    \/ \E input \in FrameInputs, dt \in FrameGaps : Frame(input, dt)
    \/ ConnClose

SpecClient == InitClient /\ [][NextClient]_vars

NextInterp ==
    \/ \E k \in 0..1 : IbPush(k)
    \/ IbGet
    \/ IbAdvance

SpecInterp == InitClient /\ [][NextInterp]_vars

(***************************************************************************)
(* SpecRace: a race one update before GO; every frame the karts are        *)
(* somewhere on the track and RaceManager.update runs.                     *)
(***************************************************************************)
\* the frozen updates before it changed nothing but the countdown
InitRace ==
    /\ clients = [c \in Clients |-> [open |-> TRUE, roomId |-> NoRoom]]
    /\ rooms = <<>>
    /\ nextRoomId = 1
    /\ lastOp = NoOp
    /\ wire = [c \in Clients |-> NoWire]
    /\ hist = [r \in RoomIds |-> NoHist]
    /\ gc = NoGc
    /\ ib = NoIb
    /\ \E cps \in Tracks :
          rm = [RaceManager(cps, SubSeq(spawnPositions, 1, RaceKarts))
                    EXCEPT !.countdownTimer = TICK_RATE + 1, !.countdownValue = 1]

    /\ pred = Prediction
    /\ srv = NoSrv
    /\ ks = NoKs
    /\ KartIdle

NextRace == \E to \in KartMoves(RaceKarts) : RaceFrame(to)

SpecRace == InitRace /\ [][NextRace]_vars

(***************************************************************************)
(* SpecFinish: the same race on short tracks of two and three checkpoints  *)
(* that lie around the finish line; the karts move a unit per frame to and *)
(* fro across the line, so laps are counted and racers finish.             *)
(***************************************************************************)
Loop2 == <<Pt(0, -29), Pt(0, 29)>>

Loop3 == <<Pt(0, -29), Pt(29, 0), Pt(0, 29)>>

FinishTracks == {Loop2, Loop3}

FinishPoints(i) ==
    LET x == spawnPositions[((i - 1) % 4) + 1].x
    IN  {Pt(x, 1), Pt(x, -1)}

FinishMoves ==
    {to \in [1..RaceKarts -> UNION {FinishPoints(i) : i \in 1..RaceKarts}] :
        \A i \in 1..RaceKarts : to[i] \in FinishPoints(i)}

InitFinish ==
    /\ ServerIdle
    /\ \E cps \in FinishTracks :
          rm = [RaceManager(cps, SubSeq(spawnPositions, 1, RaceKarts))
                    EXCEPT !.countdownTimer = TICK_RATE + 1, !.countdownValue = 1]
    /\ pred = Prediction
    /\ srv = NoSrv
    /\ ks = NoKs
    /\ KartIdle

NextFinish == \E to \in FinishMoves : RaceFrame(to)

SpecFinish == InitFinish /\ [][NextFinish]_vars

(***************************************************************************)
(* SpecPredict: snapshots arrive between frames of the client loop.        *)
(***************************************************************************)
InitPredict ==
    /\ clients = [c \in Clients |-> [open |-> TRUE, roomId |-> NoRoom]]
    /\ rooms = <<>>
    /\ nextRoomId = 1
    /\ lastOp = NoOp
    /\ wire = [c \in Clients |-> NoWire]
    /\ hist = [r \in RoomIds |-> NoHist]
    /\ gc = NoGc
    /\ ib = NoIb
    /\ rm = NoRm
    /\ pred = Prediction
    /\ srv = NoSrv
    /\ ks = NoKs
    /\ KartIdle

NextPredict ==
    \/ \E s \in ServerStates : PredPush(s)
    \/ \E move \in {0, 1} : PredFrame(move)

SpecPredict == InitPredict /\ [][NextPredict]_vars

(***************************************************************************)
(* SpecCountdown: the client loop during the server's countdown.  The      *)
(* frozen room runs no physics (room.js 263-274), so every snapshot holds  *)
(* the local kart at its spawn position 0; the k-th snapshot is that of    *)
(* tick k * SNAPSHOT_INTERVAL.  A frame's move is what physics.update      *)
(* makes of the polled input: 0 with no key down, 1 under throttle.        *)
(***************************************************************************)
CountdownState(k) ==
    [tick |-> k, x |-> 0, heldItem |-> "none", boostSpeed |-> 0, boostTimer |-> 0]

InitCountdown == InitPredict

NextCountdown ==
    \/ \E k \in 1..MaxCdSnaps : PredPush(CountdownState(k))
    \/ \E move \in {0, 1} : PredFrame(move)

SpecCountdown == InitCountdown /\ [][NextCountdown]_vars

(***************************************************************************)
(* SpecServer: room 1 is racing (racers 1..NumRacers, two ticks before     *)
(* the countdown ends), room 2 has just been created by the next           *)
(* connection.                                                             *)
(***************************************************************************)
Host2 == NumRacers + 1

InitServer ==
    /\ clients = [c \in Clients |->
                     [open |-> TRUE,
                      roomId |-> IF c \in Racers THEN 1 ELSE IF c = Host2 THEN 2 ELSE NoRoom]]
    /\ rooms = [r \in {1, 2} |-> IF r = 1 THEN StartedRoom ELSE addPlayer(GameRoom, Host2)]
    /\ nextRoomId = 3
    /\ lastOp = NoOp
    /\ wire = [c \in Clients |->
                  IF c \in Racers
                  THEN [tick |-> RoomStartTick - (RoomStartTick % SNAPSHOT_INTERVAL),
                        lastInputSeq |-> 0, events |-> <<>>]
                  ELSE NoWire]
    /\ hist = [r \in RoomIds |->
                  IF r = 1
                  THEN [NoHist EXCEPT
                           !.nSnaps = RoomStartTick \div SNAPSHOT_INTERVAL,
                           !.lastSnap = RoomStartTick - (RoomStartTick % SNAPSHOT_INTERVAL),
                           !.prevSnap = RoomStartTick - (RoomStartTick % SNAPSHOT_INTERVAL)
                                        - SNAPSHOT_INTERVAL]
                  ELSE NoHist]
    /\ gc = NoGc
    /\ ib = NoIb
    /\ LaterIdle

NextServer ==
    \/ \E c \in {1, Host2} : SrvDropMessage(c)
    \/ SrvReady(Host2)
    \/ SrvStartGameResume(2)
    \/ SrvStartGameRejects(2)
    \/ SrvInput(1, 1, [accel |-> 1, hopTap |-> TRUE, itemUseTap |-> FALSE])
    \/ SrvInputUndefined(1, 1)
    \/ SrvTick(1, RoomStartTick + MaxServerTicks)
    \/ SrvTick(2, MaxServerTicks)
    \/ \E r \in {1, 2} : SrvTickThrows(r)

SpecServer == InitServer /\ [][NextServer]_vars

(***************************************************************************)
(* SpecSlide: one kart is driven through updates with any input.           *)
(***************************************************************************)
InitSlide ==
    /\ clients = [c \in Clients |-> [open |-> TRUE, roomId |-> NoRoom]]
    /\ rooms = <<>>
    /\ nextRoomId = 1
    /\ lastOp = NoOp
    /\ wire = [c \in Clients |-> NoWire]
    /\ hist = [r \in RoomIds |-> NoHist]
    /\ gc = NoGc
    /\ ib = NoIb
    /\ rm = NoRm
    /\ pred = Prediction
    /\ srv = NoSrv
    /\ ks = NoKs
    /\ KartIdle

NextSlide ==
    \/ \E input \in SlideInputs, onGround \in BOOLEAN, fell \in BOOLEAN :
          SlideUpdate(input, onGround, fell)
    \/ SlideExplode

SpecSlide == InitSlide /\ [][NextSlide]_vars

(***************************************************************************)
(* SpecKart: one kart is driven through MaxKartFrames updates with any     *)
(* input over any track, hit by a pad or an explosion in between.  It      *)
(* starts as constructed, or in a state that earlier updates lead to: at   *)
(* rest on the ground; at top speed (repeated acceleration); at the        *)
(* reverse limit (repeated braking); boosted by a pad six updates ago on   *)
(* the highest ground; or two updates before the end of a hop from there   *)
(* down the longest descent, steering all the way.                         *)
(***************************************************************************)
KartOnGround == [NoKp EXCEPT !.grounded = TRUE, !.h = 200, !.resGrounded = TRUE]

KartBoosted ==
    [KartOnGround EXCEPT !.speed = 5500, !.velF = 5500, !.gy = HEIGHT_SCALE,
                         !.boostSpeed = 2000, !.boostTimer = 900]

KartFalling ==
    [NoKp EXCEPT !.speed = 4075, !.velF = 5500, !.h = 39825, !.gy = -HEIGHT_SCALE,
                 !.boostSpeed = 575, !.turn = 37, !.vy = -422500, !.resVy = -422500]

KartStarts ==
    {NoKp, KartOnGround, KartBoosted, KartFalling}
      \cup {[KartOnGround EXCEPT !.speed = v, !.velF = v] : v \in {maxSpeed, -1400}}

InitKart ==
    /\ ServerIdle
    /\ rm = NoRm /\ pred = Prediction /\ srv = NoSrv /\ ks = NoKs
    /\ bp = NoBp /\ ms = NoMs
    /\ ItemIdle
    /\ kp \in {[k EXCEPT !.op = "update"] : k \in KartStarts}

NextKart ==
    \/ \E input \in KartInputs, env \in KartEnvs : KartFrame(input, env)
    \/ KartPad
    \/ KartExplode

SpecKart == InitKart /\ [][NextKart]_vars

(***************************************************************************)
(* SpecPads: MaxPadTicks ticks of physics and pad update.  The pads start  *)
(* with no cooldown, or with kart 1's cooldown on pad 1 about to run out   *)
(* (it triggered the pad PAD_COOLDOWN - 2 updates ago).                    *)
(***************************************************************************)
InitPads ==
    /\ ServerIdle
    /\ rm = NoRm /\ pred = Prediction /\ srv = NoSrv /\ ks = NoKs
    /\ kp = NoKp /\ ms = NoMs
    /\ ItemIdle
    /\ bp \in {NoBp, [NoBp EXCEPT !.cooldowns[1][1] = 2]}

NextPads ==
    \/ \E pos \in [PadKartIds -> UNION {PadKartPoints(k) : k \in PadKartIds}],
          boost \in [PadKartIds -> UNION {BoostAfterPhysics(bp.boost[k]) : k \in PadKartIds}] :
          PadPhysics(pos, boost)
    \/ PadUpdate

SpecPads == InitPads /\ [][NextPads]_vars

(***************************************************************************)
(* SpecMissile: the owner fires one missile, which is then updated with    *)
(* the targets in any of TargetOffsets.  It starts with no missile, or     *)
(* with a missile that has flown straight for all but two updates of its   *)
(* lifetime with no kart in its cone.                                      *)
(***************************************************************************)
OldMissile ==
    [missileFire(Pt(0, 0)) EXCEPT !.lifetime = 2,
                                  !.z = @ - (LIFETIME - 2) * MISSILE_STEP]

InitMissile ==
    /\ ServerIdle
    /\ rm = NoRm /\ pred = Prediction /\ srv = NoSrv /\ ks = NoKs
    /\ kp = NoKp /\ bp = NoBp
    /\ ItemIdle
    /\ ms \in {NoMs, [NoMs EXCEPT !.active = <<OldMissile>>, !.op = "update"]}

NextMissile ==
    \/ MsFire
    \/ \E offsets \in [MissileKartIds -> TargetOffsets] : MsUpdate(offsets)

SpecMissile == InitMissile /\ [][NextMissile]_vars

(***************************************************************************)
(* SpecLerp: snapshots arrive at the buffer, frames read it, time passes.  *)
(* The buffer starts empty, or with the 29 snapshots that 1.45 s of a      *)
(* standing kart at 20 snapshots a second have put into it.                *)
(***************************************************************************)
LbFilled ==
    [NoLb EXCEPT !.snapshots = [i \in 1..(MaxSnapshots - 1) |->
                                   [serverTime |-> 50 * (i - 1), karts |-> <<SnapKart(1, 0)>>]],
                 !.now = 50 * (MaxSnapshots - 2),
                 !.op = "push"]

InitLerp ==
    /\ ServerIdle
    /\ rm = NoRm /\ pred = Prediction /\ srv = NoSrv /\ ks = NoKs
    /\ kp = NoKp /\ bp = NoBp /\ ms = NoMs
    /\ tn = NoTn /\ bx = NoBx /\ bc = NoBc
    /\ lb \in {NoLb, LbFilled}

NextLerp ==
    \/ \E karts \in LbKarts : LbPush(karts)
    \/ LbGet
    \/ LbAdvance

SpecLerp == InitLerp /\ [][NextLerp]_vars

(***************************************************************************)
(* SpecTnt: ticks of the TNT system.  It starts with no TNT, or with one   *)
(* that kart 1 placed from (0, 0) and nobody has come near: two ticks      *)
(* before its owner's immunity ends, or two ticks before its lifetime ends.*)
(***************************************************************************)
TnOld(age) ==
    [NoTn EXCEPT !.placed = <<[x |-> 0, z |-> TNT_BEHIND, ownerId |-> 1,
                               immuneTimer |-> IF age > TNT_IMMUNE THEN 0
                                               ELSE TNT_IMMUNE - age,
                               lifetime |-> TNT_LIFETIME - age, tid |-> 1]>>,
                 !.before = @,
                 !.nextTid = 2, !.op = "tick"]

InitTnt ==
    /\ ServerIdle
    /\ rm = NoRm /\ pred = Prediction /\ srv = NoSrv /\ ks = NoKs
    /\ kp = NoKp /\ bp = NoBp /\ ms = NoMs
    /\ lb = NoLb /\ bx = NoBx /\ bc = NoBc
    /\ tn \in {NoTn, TnOld(TNT_IMMUNE - 2), TnOld(TNT_LIFETIME - 2)}

NextTnt == \E pos \in [TnKartIds -> TnPoints], placer \in 0..TnKarts : TnTick(pos, placer)

SpecTnt == InitTnt /\ [][NextTnt]_vars

(***************************************************************************)
(* SpecBoxes: ticks of the item boxes.  They start as built, or with box 1 *)
(* two ticks before the end of the respawn time that a pickup by kart 1    *)
(* started (kart 1 still holds the item, or has used it).                  *)
(***************************************************************************)
BxTaken(item) ==
    [NoBx EXCEPT !.timers[1] = 2, !.karts[1].heldItem = item]

InitBoxes ==
    /\ ServerIdle
    /\ rm = NoRm /\ pred = Prediction /\ srv = NoSrv /\ ks = NoKs
    /\ kp = NoKp /\ bp = NoBp /\ ms = NoMs
    /\ lb = NoLb /\ tn = NoTn /\ bc = NoBc
    /\ bx \in {NoBx, BxTaken("none"), BxTaken("tnt")}

NextBoxes ==
    \E pos \in [BxKartIds -> BxPoints], used \in SUBSET BxKartIds,
       roll \in [BoxIds -> 1..Len(AVAILABLE_ITEMS)] : BxTick(pos, used, roll)

SpecBoxes == InitBoxes /\ [][NextBoxes]_vars

(***************************************************************************)
(* SpecBot: ticks of one bot.  It starts as built, with or without         *)
(* checkpoints; or after 89 updates against a wall (it picked an item up   *)
(* when it hit the wall and drew a delay of 90 ticks); or after 89 updates *)
(* against a wall on a map without checkpoints; or 46 updates into a       *)
(* recovery.                                                               *)
(***************************************************************************)
BcFresh(cps) ==
    [NoBc EXCEPT !.c.checkpoints = cps, !.prev.checkpoints = cps]

BcStuck ==
    [BcFresh(BotCps) EXCEPT
        !.c.stuckTimer = STUCK_TICKS - 1,
        !.c.itemUseDelay = 1,
        !.c.input = [accel |-> 50, steer |-> 10, itemUseTap |-> FALSE],
        !.c.kart.heldItem = "tnt",
        !.heldFor = STUCK_TICKS - 1,
        !.still = STUCK_TICKS - 1]

BcStuckNoCps ==
    [BcFresh(<<>>) EXCEPT
        !.c.input = [accel |-> 100, steer |-> 0, itemUseTap |-> FALSE],
        !.still = STUCK_TICKS - 1]

BcReversing ==
    [BcFresh(BotCps) EXCEPT
        !.c.reversing = TRUE,
        !.c.reverseTimer = 2,
        !.c.input = [accel |-> -100, steer |-> -5, itemUseTap |-> FALSE],
        !.c.kart.pos = Pt(1, 0),
        !.prev.reversing = TRUE]

InitBot ==
    /\ ServerIdle
    /\ rm = NoRm /\ pred = Prediction /\ srv = NoSrv /\ ks = NoKs
    /\ kp = NoKp /\ bp = NoBp /\ ms = NoMs
    /\ lb = NoLb /\ tn = NoTn /\ bx = NoBx
    /\ bc \in {BcFresh(BotCps), BcFresh(<<>>), BcStuck, BcStuckNoCps, BcReversing}

NextBot ==
    \E to \in BotPoints, pick \in {"none", "boost"}, draw \in BotDelays : BcTick(to, pick, draw)

SpecBot == InitBot /\ [][NextBot]_vars

(***************************************************************************)
(* Properties of the lobby and the room.                                   *)
(***************************************************************************)
EveryoneReady(room) ==
    /\ Len(room.players) >= 1
    /\ \A i \in 1..Len(room.players) : room.players[i].ready

StartsOf(rs, r) == IF r \in DOMAIN rs THEN rs[r].starts ELSE 0

RunningIn(rs, r) == r \in DOMAIN rs /\ rs[r].running

\* C1: a room becomes Running, and startGame is invoked on it, only in a step
\* after which it has at least one player and every player in it is ready.
C1_RunningOnlyWhenAllReady ==
    [][\A r \in RoomIds :
          (r \in DOMAIN rooms' /\
           (StartsOf(rooms', r) > StartsOf(rooms, r)
            \/ (rooms'[r].running /\ ~RunningIn(rooms, r))))
          => (rooms'[r].running /\ EveryoneReady(rooms'[r])
              /\ StartsOf(rooms', r) = StartsOf(rooms, r) + 1)]_vars

C1_Witness ==
    \E r \in DOMAIN rooms :
        /\ rooms[r].running
        /\ rooms[r].loading = 1
        /\ lastOp.type = "lobby:ready"
        /\ playerCount(rooms[r]) = MaxPlayers
        /\ EveryoneReady(rooms[r])

\* C3: no _tick executes for a room that has no player left, i.e.
\* the room's timer is released when its last player leaves or disconnects.
C3_NoTickInEmptyRoom ==
    [][\A r \in RoomIds :
          (r \in DOMAIN rooms /\ r \in DOMAIN rooms' /\ rooms'[r].tick # rooms[r].tick)
          => playerCount(rooms[r]) > 0]_vars

\* C4: a join whose target, when the message arrives, does not
\* exist, is Running or has 4 players is answered lobby:error and adds nobody.
TargetClosedOnArrival(rid) ==
    \/ rid \notin DOMAIN rooms
    \/ rooms[rid].running
    \/ playerCount(rooms[rid]) >= MaxPlayers

JoinRefused(c, rid) ==
    /\ lastOp'.reply = "lobby:error"
    /\ clients'[c].roomId # rid
    /\ rid \in DOMAIN rooms' =>
          (~HasPlayer(rooms'[rid], c) /\ rid \in DOMAIN rooms
           /\ PlayerIds(rooms'[rid]) \subseteq PlayerIds(rooms[rid]))

C4_JoinRejected ==
    [][\A c \in Clients, rid \in RoomIds :
          (LobbyJoin(c, rid) /\ TargetClosedOnArrival(rid)) => JoinRefused(c, rid)]_vars

\* C5: every room of the registry that is not Running has at least one player.
C5_NoEmptyIdleRoom ==
    \A r \in DOMAIN rooms : ~rooms[r].running => Len(rooms[r].players) >= 1

C5_Witness ==
    /\ lastOp.deleted
    /\ lastOp.type \in {"lobby:leave", "close"}
    /\ \E r \in DOMAIN rooms : ~rooms[r].running

\* the connections that have a kart in the room and are no longer players of it
RemovedWithKart(room) ==
    {p \in Clients : ~HasPlayer(room, p) /\ FindKart(room, p) # 0}

\* C2: removing a player of a Running room leaves the kart list and the physics
\* entries as they were and attaches one fresh bot, over the race's checkpoints,
\* to that player's kart; every later unfrozen tick advances that kart with the
\* bot's input, and the number of karts stays the same.
C2_RemovedPlayerKartBecomesBot ==
    /\ [](\A r \in DOMAIN rooms : \A p \in RemovedWithKart(rooms[r]) :
            \E b \in 1..Len(rooms[r].bots) :
                /\ rooms[r].bots[b].id = p
                /\ rooms[r].bots[b].kart = FindKart(rooms[r], p)
                /\ rooms[r].bots[b].cps = "race")
    /\ [][\A r \in DOMAIN rooms \cap DOMAIN rooms' :
            /\ (rooms[r].running /\ PlayerIds(rooms'[r]) # PlayerIds(rooms[r]))
               => /\ rooms'[r].karts = rooms[r].karts
                  /\ rooms'[r].physics = rooms[r].physics
                  /\ Len(rooms'[r].bots) = Len(rooms[r].bots) + 1
                  /\ rooms'[r].bots[Len(rooms'[r].bots)].input = BotInput
            /\ (rooms'[r].tick = rooms[r].tick + 1 /\ rooms'[r].race[1].countdownValue <= 0)
               => /\ Len(rooms'[r].karts) = Len(rooms[r].karts)
                  /\ \A p \in RemovedWithKart(rooms[r]) :
                        rooms'[r].karts[FindKart(rooms[r], p)].drivenBy = "bot"]_vars

C2_Witness ==
    \E r \in DOMAIN rooms : \E p \in RemovedWithKart(rooms[r]) :
        /\ rooms[r].karts[FindKart(rooms[r], p)].drivenBy = "bot"
        /\ p \in DOMAIN rooms[r].playerInputs
        /\ rooms[r].race[1].countdownValue <= 0

\* C6: the input a room retains for a player is never replaced by one with a
\* lower sequence number.
C6_NewestInputRetained ==
    [][\A r \in DOMAIN rooms \cap DOMAIN rooms' :
          \A p \in DOMAIN rooms[r].playerInputs \cap DOMAIN rooms'[r].playerInputs :
              rooms'[r].playerInputs[p].seq >= rooms[r].playerInputs[p].seq]_vars

\* the first tick at or after t on which a snapshot goes out
FirstBroadcastFrom(t) ==
    ((t + SNAPSHOT_INTERVAL - 1) \div SNAPSHOT_INTERVAL) * SNAPSHOT_INTERVAL

\* C9: every event a tick appended has been broadcast at most once; it is still
\* in the room's list exactly while no broadcast happened at or after its tick,
\* and otherwise went out in the first broadcast at or after its tick; the list
\* is empty after a broadcast; the players of the room all hold the event list
\* of the last broadcast.
C9_EventsBroadcastOnce ==
    \A r \in DOMAIN rooms :
        LET room == rooms[r]
            h == hist[r]
            pending == {room.events[i].eid : i \in 1..Len(room.events)}
        IN  /\ \A e \in 1..(h.nextEid - 1) :
                  /\ h.bcasts[e] <= 1
                  /\ (h.bcasts[e] = 0) <=> (e \in pending)
                  /\ (h.bcasts[e] = 0) => h.lastSnap < h.born[e]
                  /\ (h.bcasts[e] = 1) => h.bcastTick[e] = FirstBroadcastFrom(h.born[e])
            /\ (room.timers > 0 /\ room.tick % SNAPSHOT_INTERVAL = 0) => room.events = <<>>
            /\ (room.timers > 0) =>
                  \A c \in PlayerIds(room) :
                      wire[c].tick = h.lastSnap /\ wire[c].events = h.snapEvents

C9_Witness ==
    \E r \in DOMAIN rooms :
        /\ Len(hist[r].snapEvents) >= 2
        /\ playerCount(rooms[r]) >= 2
        /\ rooms[r].events = <<>>
        /\ \A c \in PlayerIds(rooms[r]) : wire[c].events = hist[r].snapEvents
        /\ \E e \in 1..(hist[r].nextEid - 1) :
              hist[r].bcasts[e] = 1 /\ hist[r].bcastTick[e] > hist[r].born[e]

\* C10: a tick broadcasts a snapshot exactly when its tick number is a multiple
\* of SNAPSHOT_INTERVAL, and each snapshot's tick number is the previous
\* snapshot's plus SNAPSHOT_INTERVAL.
C10_SnapshotEveryThirdTick ==
    [][\A r \in DOMAIN rooms \cap DOMAIN rooms' :
          /\ (hist'[r].nSnaps > hist[r].nSnaps)
             <=> (rooms'[r].tick = rooms[r].tick + 1
                  /\ rooms'[r].tick % SNAPSHOT_INTERVAL = 0)
          /\ (hist'[r].nSnaps > hist[r].nSnaps /\ hist[r].nSnaps > 0)
             => hist'[r].lastSnap = hist[r].lastSnap + SNAPSHOT_INTERVAL]_vars

(***************************************************************************)
(* Properties of the client.                                               *)
(***************************************************************************)
\* C7: a message that a frame sends carries exactly the taps raised on the
\* frames since the previous message went out (that frame included), so every
\* tap rides on the next message sent and on no other; a frame sends only when
\* at least SEND_INTERVAL ms have passed since the previous send; each message's
\* seq is the previous message's plus 1; after a send no tap is latched.
C7_TapsLatchedUntilSent ==
    [][(gc'.frames = gc.frames + 1 /\ gc'.sent # <<>>) =>
          /\ TapsOf(gc'.sent[1].input) = gc.owed \cup gc'.frameTaps
          /\ gc.nSent > 0 => gc'.now - gc.sentAt >= 50
          /\ gc'.sent[1].seq = gc.sentSeq + 1
          /\ ~gc'.client._pendingHopZTap
          /\ ~gc'.client._pendingHopXTap
          /\ ~gc'.client._pendingItemUseTap]_vars

C7_Witness ==
    /\ gc.sent # <<>>
    /\ gc.nSent >= 2
    /\ gc.sent[1].input.itemUseTap
    /\ gc.sent[1].input.hopZTap
    /\ gc.frameTaps = {}
    /\ gc.sent[1].seq = 2

\* C8: every event of a pushed snapshot has been returned by at most one call
\* of getInterpolatedState, and one that has not been returned yet is still
\* buffered, unconsumed.
C8_EventsReturnedExactlyOnce ==
    \A e \in 1..(ib.nextEid - 1) :
        /\ ib.delivered[e] <= 1
        /\ ib.delivered[e] = 0 =>
              \E i \in 1..Len(ib.snapshots) :
                  /\ e \in Range(ib.snapshots[i].events)
                  /\ ~ib.snapshots[i].eventsConsumed

\* a firing of room r's timer, and whether the race is frozen when _tick tests it
TickOf(r) ==
    r \in DOMAIN rooms /\ r \in DOMAIN rooms' /\ rooms'[r].tick = rooms[r].tick + 1

FrozenAfter(r) == rooms'[r].race[1].countdownValue > 0

\* C11: a tick that finds the race frozen after its countdown update changes
\* the tick counter and the countdown (one tick of time less) and nothing else
\* of the room: karts, bots, stored inputs, events, placed TNT and missiles stay.
C11_FrozenTickChangesOnlyCountdown ==
    [][\A r \in RoomIds :
          (TickOf(r) /\ FrozenAfter(r)) =>
              /\ rooms'[r].race[1].countdownTimer = rooms[r].race[1].countdownTimer - 1
              /\ rooms'[r] = [rooms[r] EXCEPT !.tick = rooms'[r].tick,
                                              !.race = rooms'[r].race]]_vars

C11_Witness ==
    /\ 1 \in DOMAIN rooms
    /\ rooms[1].tick > RoomStartTick
    /\ rooms[1].race[1].countdownValue > 0
    /\ 1 \in DOMAIN rooms[1].playerInputs
    /\ rooms[1].playerInputs[1].input.hopTap
    /\ RemovedWithKart(rooms[1]) # {}

RacerIds == DOMAIN rm.racers

\* checkpoints accepted for racer i by the update of this step
AcceptedSteps(i) == rm'.racers[i].checkpointsPassed - rm.racers[i].checkpointsPassed

LapCounted(i) ==
    \/ rm'.racers[i].lap # rm.racers[i].lap
    \/ rm'.racers[i].finished # rm.racers[i].finished

\* C13: a racer's lap is incremented, or the racer becomes finished with the
\* lap clamped to totalLaps, only on an update in which prevSide < 0 and
\* curSide >= 0, the kart is laterally within FINISH_LINE_WIDTH / 2 of the
\* line and cpThisLap (with the checkpoints accepted in this update) is at
\* least floor(checkpoint count * 0.5); such a counted crossing resets
\* cpThisLap and nextCheckpoint to 0.
C13_LapCountedOnlyOnValidCrossing ==
    [][\A i \in RacerIds :
          LapCounted(i) =>
              /\ rm.racers[i].prevSide < 0
              /\ -rm'.racers[i].kart.z >= 0
              /\ Abs(rm'.racers[i].kart.x) <= FINISH_LINE_WIDTH \div 2
              /\ rm.racers[i].cpThisLap + AcceptedSteps(i) >= Len(rm.checkpoints) \div 2
              /\ rm'.racers[i].cpThisLap = 0
              /\ rm'.racers[i].nextCheckpoint = 0
              /\ IF rm.racers[i].lap = TOTAL_LAPS
                 THEN rm'.racers[i].finished /\ rm'.racers[i].lap = TOTAL_LAPS
                 ELSE ~rm'.racers[i].finished /\ rm'.racers[i].lap = rm.racers[i].lap + 1]_vars

C13_Witness ==
    \E i \in RacerIds :
        /\ rm.racers[i].finished
        /\ rm.racers[i].lap = TOTAL_LAPS
        /\ rm.racers[i].cpThisLap = 0
        /\ rm.racers[i].nextCheckpoint = 0

\* the step is an update that leaves the countdown at GO or beyond
RacingUpdate == rm'.countdownValue <= 0

\* lookahead offsets 0..CP_LOOKAHEAD-1 whose checkpoint, counted from the
\* racer's nextCheckpoint, is within CP_HIT_RADIUS of where the update finds
\* the kart
OffsetsInRadius(i) ==
    {k \in 0..(CP_LOOKAHEAD - 1) :
        Dist2(rm.checkpoints[((rm.racers[i].nextCheckpoint + k) % Len(rm.checkpoints)) + 1],
              rm'.racers[i].kart) < CP_HIT_RADIUS * CP_HIT_RADIUS}

\* k + 1 for the furthest offset k in radius, 0 when there is none
StepsDue(i) ==
    IF OffsetsInRadius(i) = {} THEN 0
    ELSE 1 + CHOOSE k \in OffsetsInRadius(i) : \A j \in OffsetsInRadius(i) : j <= k

\* C14 as stated: on each racing update the furthest checkpoint in radius among
\* the next CP_LOOKAHEAD is accepted, nextCheckpoint advancing by k + 1 modulo
\* the count and checkpointsPassed and cpThisLap growing by k + 1; with none in
\* radius none of the three changes.
C14_FurthestCheckpointAccepted ==
    [][RacingUpdate =>
          \A i \in RacerIds :
              /\ rm'.racers[i].nextCheckpoint =
                     (rm.racers[i].nextCheckpoint + StepsDue(i)) % Len(rm.checkpoints)
              /\ rm'.racers[i].checkpointsPassed = rm.racers[i].checkpointsPassed + StepsDue(i)
              /\ rm'.racers[i].cpThisLap = rm.racers[i].cpThisLap + StepsDue(i)]_vars

\* C14 amended: that holds on a track of at least two checkpoints for a racer
\* that has not finished, except that an update which also counts a finish-line
\* crossing leaves nextCheckpoint and cpThisLap at 0; a finished racer, and any
\* racer on a track of fewer than two checkpoints, keeps all three.
C14_FurthestAcceptedUnlessLapCounted ==
    [][RacingUpdate =>
          \A i \in RacerIds :
              IF rm.racers[i].finished \/ Len(rm.checkpoints) < 2
              THEN /\ rm'.racers[i].nextCheckpoint = rm.racers[i].nextCheckpoint
                   /\ rm'.racers[i].checkpointsPassed = rm.racers[i].checkpointsPassed
                   /\ rm'.racers[i].cpThisLap = rm.racers[i].cpThisLap
              ELSE /\ rm'.racers[i].checkpointsPassed =
                          rm.racers[i].checkpointsPassed + StepsDue(i)
                   /\ IF LapCounted(i)
                      THEN rm'.racers[i].nextCheckpoint = 0 /\ rm'.racers[i].cpThisLap = 0
                      ELSE /\ rm'.racers[i].nextCheckpoint =
                                  (rm.racers[i].nextCheckpoint + StepsDue(i))
                                      % Len(rm.checkpoints)
                           /\ rm'.racers[i].cpThisLap =
                                  rm.racers[i].cpThisLap + StepsDue(i)]_vars

\* a kart at checkpoint 3, within radius of checkpoints 3 and 4 and of no later
\* one, whose next checkpoint has become 5 in its first lap
C14_Witness ==
    \E i \in RacerIds :
        /\ Len(rm.checkpoints) = 6
        /\ rm.racers[i].kart = Pt(40, -20)
        /\ rm.racers[i].nextCheckpoint = 5
        /\ rm.racers[i].checkpointsPassed = 5
        /\ rm.racers[i].cpThisLap = 5

\* the race has left the countdown: every such state of SpecRace is the
\* result of an update that was not frozen
AfterRacingUpdate == rm.countdownValue <= 0 /\ RacerIds # {}

\* squared distance of racer i's kart to its next checkpoint
ToNext2(i) ==
    Dist2(rm.checkpoints[rm.racers[i].nextCheckpoint + 1], rm.racers[i].kart)

\* racer i is strictly ahead of racer j on the four keys
Ahead(i, j) ==
    LET a == rm.racers[i]
        b == rm.racers[j]
    IN  \/ a.finished /\ ~b.finished
        \/ a.finished = b.finished /\ a.lap > b.lap
        \/ a.finished = b.finished /\ a.lap = b.lap
               /\ a.checkpointsPassed > b.checkpointsPassed
        \/ a.finished = b.finished /\ a.lap = b.lap
               /\ a.checkpointsPassed = b.checkpointsPassed /\ ToNext2(i) < ToNext2(j)

RankedByKeys ==
    /\ {rm.racers[i].position : i \in RacerIds} = 1..Len(rm.racers)
    /\ \A i, j \in RacerIds : Ahead(i, j) => rm.racers[i].position < rm.racers[j].position

\* C15 as stated: after every update in which the race is not frozen the
\* positions are a permutation of 1..N that puts A ahead of B whenever A is
\* finished and B is not, or has the higher lap, or more checkpointsPassed, or
\* is closer to its next checkpoint.
C15_PositionsRankedByKeys == AfterRacingUpdate => RankedByKeys

\* C15 amended: that holds on a track of at least two checkpoints.
C15_PositionsRankedOnRealTrack ==
    (AfterRacingUpdate /\ Len(rm.checkpoints) >= 2) => RankedByKeys

\* a racer a lap ahead is ranked before one that has passed more checkpoints
C15_Witness ==
    /\ AfterRacingUpdate
    /\ Len(rm.checkpoints) >= 2
    /\ \E i, j \in RacerIds :
          /\ rm.racers[i].lap > rm.racers[j].lap
          /\ rm.racers[i].checkpointsPassed < rm.racers[j].checkpointsPassed
          /\ rm.racers[i].position < rm.racers[j].position

\* the orders in which the same racers can sit in the racers array
ArrayOrders ==
    {f \in [RacerIds -> RacerIds] : \A i, j \in RacerIds : f[i] = f[j] => i = j}

\* C16: the rank _updatePositions gives a racer does not depend on the order
\* of the racers array: ranking any permutation of the array gives every
\* racer the rank it has now, ties on all four keys included.
C16_RanksIndependentOfArrayOrder ==
    (AfterRacingUpdate /\ Len(rm.checkpoints) >= 2) =>
        \A f \in ArrayOrders :
            \A k \in RacerIds :
                _updatePositions(rm.checkpoints, [n \in RacerIds |-> rm.racers[f[n]]])[k].position
                    = _updatePositions(rm.checkpoints, rm.racers)[f[k]].position

(***************************************************************************)
(* Prediction claims (SpecPredict).                                        *)
(***************************************************************************)
\* the fields C17 speaks of: position, pending offset, synced fields
Reconciled(p) == <<p.x, p._offset, p.heldItem, p.boostSpeed, p.boostTimer>>

\* C17: reconciliation is idempotent: onServerState applied twice with the
\* same server state and no local step in between, and the loop's
\* reconciliation step run again over the same latest snapshot, leave the
\* kart's position, the pending offset and the synced fields as they were
\* after the first application.
C17_ReconciliationIdempotent ==
    /\ \A s \in ServerStates :
          Reconciled(onServerState(onServerState(pred, s), s))
              = Reconciled(onServerState(pred, s))
    /\ Reconciled(Reconcile(Reconcile(pred))) = Reconciled(Reconcile(pred))
    /\ getLatestForReconciliation(Reconcile(pred)) = NoSnapshot

\* a snapshot with a large error has just been reconciled
C17_Witness ==
    /\ pred.op = "frame"
    /\ pred._lastReconcileTick = pred.latest.tick
    /\ pred._offset # 0
    /\ pred._offset = pred.latest.x - pred.x
    /\ pred.heldItem = "missile"

\* C18: after a snapshot whose error is below SNAP_THRESHOLD has been
\* processed, the frames that follow apply no correction displacement to the
\* kart until a later snapshot has an error at or above the threshold.
C18_NoCorrectionAfterAcceptedSnapshot ==
    [][(pred'.op = "frame" /\ pred.accepted) => pred'.blended = 0]_vars

(***************************************************************************)
(* Server process claims (SpecServer).                                     *)
(***************************************************************************)
\* C19: a failure confined to one room (a malformed or unroutable message
\* from one of its clients, an error while starting its game) never
\* terminates the server process, so every other room keeps its players,
\* its running flag and its tick loop.
C19_RoomFailureNeverTerminatesServer == srv.alive

(***************************************************************************)
(* Power-slide claims (SpecSlide).                                         *)
(***************************************************************************)
\* the last update's input tapped the hop button that did not start the slide
OtherButtonTapped ==
    \/ ks.slideButton = "z" /\ ks'.input.hopXTap
    \/ ks.slideButton = "x" /\ ks'.input.hopZTap

\* the meter fraction of the last update, in hundredths, lies in the window of
\* the charge count the update started with
MeterInWindow ==
    /\ ks'.meter * 100 >= SWEET_SPOTS[ks.slideBoosts + 1][1] * slideMeterDuration
    /\ ks'.meter * 100 <= SWEET_SPOTS[ks.slideBoosts + 1][2] * slideMeterDuration

\* C20: within one active slide slideBoosts only moves 0 -> 1 -> 2 -> 3, each
\* increment on a tap of the other hop button with the meter fraction inside
\* SWEET_SPOTS[slideBoosts], or moves to -1 (such a tap outside the window, or
\* a meter fraction above 1.0); once -1 it stays -1 until the slide has ended;
\* and slideBoosts is always in {-1, 0, 1, 2, 3}.
C20_SlideChargeMonotone ==
    [][/\ ks'.slideBoosts \in -1..3
       /\ (ks.slideActive /\ ks'.slideActive) =>
             \/ ks'.slideBoosts = ks.slideBoosts
             \/ /\ ks.slideBoosts \in 0..2
                /\ ks'.slideBoosts = ks.slideBoosts + 1
                /\ OtherButtonTapped
                /\ MeterInWindow
             \/ /\ ks.slideBoosts \in 0..2
                /\ ks'.slideBoosts = -1
                /\ \/ OtherButtonTapped /\ ~MeterInWindow
                   \/ ks'.meter > slideMeterDuration
       /\ (~ks.slideActive /\ ks'.slideActive) => ks'.slideBoosts \in {0, -1}]_vars

\* a slide that has collected all three charges
C20_Witness == ks.slideActive /\ ks.slideBoosts = 3 /\ ks.boostCharge = 3

\* C21: after every KartPhysics.update the kart's speed lies within
\* [-0.4 * top speed, top speed + current boostSpeed].
C21_SpeedWithinLimits ==
    kp.op = "update" /\ kp.frames > 0 =>
        /\ kp.speed >= -((maxSpeed * 4) \div 10)
        /\ kp.speed <= maxSpeed + kp.boostSpeed

\* C26: immediately after the ground check of KartPhysics.update, a kart that
\* is marked grounded has vertical velocity exactly 0.
C26_GroundedHasNoVerticalVelocity ==
    kp.op = "update" /\ kp.frames > 0 /\ kp.resGrounded => kp.resVy = 0

PadEventsFor(b, k) == Cardinality({i \in 1..Len(b.events) : b.events[i].kartId = k})

\* the cooldown of kart k on pad p is still running in this update
CooldownRunning(p, k) == bp.cooldowns[p][k] > 1

InPadRadius(p, k) ==
    Dist2(bp.pos[k], PadAt[p]) < PAD_TRIGGER_RADIUS * PAD_TRIGGER_RADIUS

\* C22: in a pad update, a kart within the trigger radius of a pad on which it
\* has no running cooldown gets boostSpeed 20 and boostTimer 1.2 and a cooldown
\* of 1.5 s on that pad, with one boost_pad event per such pad; a pad on which
\* its cooldown is running emits nothing for it, only counts that cooldown
\* down, and does not change its boost, whatever the cooldowns of other karts
\* and pads are.
C22_PadBoostsOncePerCooldown ==
    [][bp.op = "physics" /\ bp'.op = "pads" =>
         \A k \in PadKartIds :
            LET hit == {p \in PadIds : ~CooldownRunning(p, k) /\ InPadRadius(p, k)}
            IN  /\ PadEventsFor(bp', k) = Cardinality(hit)
                /\ \A p \in hit : bp'.cooldowns[p][k] = PAD_COOLDOWN
                /\ \A p \in PadIds \ hit :
                      bp'.cooldowns[p][k] =
                          IF CooldownRunning(p, k) THEN bp.cooldowns[p][k] - 1 ELSE 0
                /\ bp'.boost[k] =
                      IF hit # {}
                      THEN [boostSpeed |-> BOOST_SPEED, boostTimer |-> BOOST_DURATION]
                      ELSE bp.boost[k]]_vars

\* kart 1 has just triggered pad 2 while its cooldown on pad 1 was running, and
\* kart 2 has triggered pad 1 in the same update
C22_Witness ==
    /\ bp.op = "pads"
    /\ bp.cooldowns[1][1] \in 1..(PAD_COOLDOWN - 1)
    /\ bp.cooldowns[2][1] = PAD_COOLDOWN
    /\ bp.cooldowns[1][2] = PAD_COOLDOWN
    /\ PadEventsFor(bp, 1) = 1 /\ PadEventsFor(bp, 2) = 1

\* C23: a missile never hits a target that has been outside its forward cone
\* since it was fired; while no kart has been inside the cone its heading does
\* not change and it leaves the list only by running out of lifetime.
C23_OutOfConeTargetNeverHit ==
    /\ \A i \in 1..Len(ms.events) :
          ms.events[i].type = "missile_hit" => ms.events[i].kartId \in ms.seen
    /\ ms.seen = {} => ~ms.turned /\ ms.removed \in {"none", "expired"}

ActivationTypes == {"item_use", "tnt_place", "missile_fire"}

HazardTypes == {"boost_pad", "item_pickup", "tnt_detonate", "tnt_expire", "missile_hit"}

\* C25: every hazard update of a tick runs before the tick's item-use
\* handling, so among the events of one tick no hazard event follows an
\* item-use event.
C25_HazardsBeforeItemUse ==
    \A r \in DOMAIN rooms :
        \A i, j \in 1..Len(hist[r].tickEvents) :
            i < j => ~(/\ hist[r].tickEvents[i].type \in ActivationTypes
                       /\ hist[r].tickEvents[j].type \in HazardTypes)

\* room r makes a tick in this step; the tick is not frozen
TickStep(r) == r \in DOMAIN rooms' /\ rooms'[r].tick = rooms[r].tick + 1

UnfrozenTick(r) == TickStep(r) /\ ~isFrozen(rooms'[r].race[1])

\* the item-use tap step 7 reads for kart i: the bot's input as the bot AI of
\* this tick left it, or the player's stored input
TapRead(r, i) ==
    LET id == rooms[r].karts[i].id
        b  == FindBot(rooms[r], id)
    IN  IF b # 0 THEN rooms'[r].bots[b].input.itemUseTap
        ELSE id \in DOMAIN rooms[r].playerInputs /\ rooms[r].playerInputs[id].input.itemUseTap

TickEventsOf(h, id, types) ==
    Cardinality({i \in 1..Len(h.tickEvents) :
                    h.tickEvents[i].type \in types /\ h.tickEvents[i].kartId = id})

\* kart i holds an item when step 7 runs: it held one before the tick or the
\* item boxes gave it one in this tick
HeldAtUse(r, i) ==
    \/ rooms[r].karts[i].heldItem # "none"
    \/ TickEventsOf(hist'[r], rooms[r].karts[i].id, {"item_pickup"}) > 0

\* C24: in a tick a kart's held item becomes none, with exactly one item_use,
\* tnt_place or missile_fire event for the item, when its item-use tap is set
\* and it holds an item; otherwise the tick leaves its held item as it is (or
\* as the item boxes set it) and emits no such event for it.
C24_HeldItemClearedExactlyWhenConsumed ==
    [][\A r \in DOMAIN rooms :
          TickStep(r) =>
             \A i \in 1..Len(rooms[r].karts) :
                LET k    == rooms[r].karts[i]
                    k2   == rooms'[r].karts[i]
                    used == TickEventsOf(hist'[r], k.id, ActivationTypes)
                IN  IF UnfrozenTick(r) /\ TapRead(r, i) /\ HeldAtUse(r, i)
                    THEN /\ k2.heldItem = "none"
                         /\ used = 1
                         /\ k.heldItem # "none" =>
                               TickEventsOf(hist'[r], k.id,
                                            {ActivationEventType(k.heldItem)}) = 1
                    ELSE /\ used = 0
                         /\ k.heldItem # "none" => k2.heldItem = k.heldItem
                         /\ ~HeldAtUse(r, i) => k2.heldItem = "none"]_vars

\* a kart has just used the item it held
C24_Witness ==
    \E r \in DOMAIN rooms :
        \E i \in 1..Len(rooms[r].karts) :
            /\ rooms[r].karts[i].heldItem = "none"
            /\ TickEventsOf(hist[r], rooms[r].karts[i].id, ActivationTypes) = 1
            /\ TickEventsOf(hist[r], rooms[r].karts[i].id, {"item_pickup"}) = 0

\* player c's stored input in room r carries a tap no tick has consumed yet
PendingTap(rs, r, c, tap) ==
    /\ r \in DOMAIN rs
    /\ rs[r].running
    /\ Len(rs[r].race) > 0
    /\ ~isFrozen(rs[r].race[1])
    /\ HasPlayer(rs[r], c)
    /\ c \in DOMAIN rs[r].playerInputs
    /\ rs[r].playerInputs[c].input[tap]

\* C28: a tap stored by an accepted input message of a running, unfrozen room
\* stays stored until a tick of the room uses it (at least one tick applies
\* it), and the tick that uses it clears it (at most one tick applies it).
C28_AcceptedTapAppliedByExactlyOneTick ==
    [][\A r \in DOMAIN rooms : \A c \in Clients : \A tap \in {"hopTap", "itemUseTap"} :
          (PendingTap(rooms, r, c, tap) /\ r \in DOMAIN rooms' /\ HasPlayer(rooms'[r], c))
             => IF TickStep(r)
                THEN ~rooms'[r].playerInputs[c].input[tap]
                ELSE rooms'[r].playerInputs[c].input[tap]]_vars

\* the ids of a room's karts are pairwise distinct
DistinctKartIds(room) ==
    \A i, j \in 1..Len(room.karts) : room.karts[i].id = room.karts[j].id => i = j

\* C27: startGame runs at most once per room, and a running room whose map
\* has loaded has exactly MaxPlayers karts with pairwise distinct ids, one
\* physics entry per kart and a single tick timer.
C27_StartGameAtMostOnce ==
    \A r \in DOMAIN rooms :
        /\ rooms[r].starts <= 1
        /\ (rooms[r].running /\ rooms[r].loading = 0)
              => /\ Len(rooms[r].karts) = MaxPlayers
                 /\ DistinctKartIds(rooms[r])
                 /\ Len(rooms[r].physics) = Len(rooms[r].karts)
                 /\ rooms[r].timers = 1

\* C29: a lobby:join answered with lobby:error leaves the sender's roomId as
\* it was, and when the sender was in a room, that room is still in the
\* registry with the sender's player entry (slot, ready flag) unchanged.
C29_RejectedJoinKeepsMembership ==
    [][\A c \in Clients, rid \in RoomIds :
          (LobbyJoin(c, rid) /\ lastOp'.reply = "lobby:error")
             => /\ clients'[c].roomId = clients[c].roomId
                /\ (InRoom(c) /\ clients[c].roomId \in DOMAIN rooms
                       /\ HasPlayer(rooms[clients[c].roomId], c))
                      => /\ clients[c].roomId \in DOMAIN rooms'
                         /\ HasPlayer(rooms'[clients[c].roomId], c)
                         /\ PlayerEntry(rooms'[clients[c].roomId], c)
                               = PlayerEntry(rooms[clients[c].roomId], c)]_vars

C31_LastInputSeqNeverDecreases ==
    [][\A c \in Clients :
          /\ (wire[c].tick >= 0 /\ wire'[c] # wire[c])
                => wire'[c].lastInputSeq >= wire[c].lastInputSeq
          /\ \A r \in DOMAIN rooms \cap DOMAIN rooms' :
                (c \in DOMAIN rooms[r].playerLastSeq /\ c \in DOMAIN rooms'[r].playerLastSeq)
                   => rooms'[r].playerLastSeq[c] >= rooms[r].playerLastSeq[c]]_vars

(***************************************************************************)
(* RaceManager claims on short tracks (SpecFinish).                        *)
(***************************************************************************)
\* C33: one update adds at most min(CP_LOOKAHEAD, number of checkpoints) to a
\* racer's checkpointsPassed and cpThisLap (cpThisLap as counted before the
\* update's finish-line step resets it).
C33_CheckpointCreditedOncePerUpdate ==
    [][\A i \in DOMAIN rm.racers :
          LET cps == rm.checkpoints
              cap == Min(CP_LOOKAHEAD, Len(cps))
              add == rm'.racers[i].checkpointsPassed - rm.racers[i].checkpointsPassed
          IN  /\ add <= cap
              /\ rm'.racers[i].cpThisLap <= rm.racers[i].cpThisLap + cap]_vars

\* C35: after every update 1 <= lap <= totalLaps and finished implies
\* lap = totalLaps; an update never lowers lap and raises it by at most 1; and
\* an update leaves a finished racer's nextCheckpoint, lap, cpThisLap,
\* checkpointsPassed and finished flag as they are.
C35_LapBoundsAndFinishedFrozen ==
    [][\A i \in DOMAIN rm.racers :
          LET r  == rm.racers[i]
              r2 == rm'.racers[i]
          IN  /\ 1 <= r2.lap /\ r2.lap <= rm.totalLaps
              /\ r.lap <= r2.lap /\ r2.lap <= r.lap + 1
              /\ r2.finished => r2.lap = rm.totalLaps
              /\ r.finished =>
                    /\ r2.finished
                    /\ r2.nextCheckpoint = r.nextCheckpoint
                    /\ r2.lap = r.lap
                    /\ r2.cpThisLap = r.cpThisLap
                    /\ r2.checkpointsPassed = r.checkpointsPassed]_vars

\* a finished racer has been through a later update: its kart is back on the
\* start side of the line, where no lap is counted
C35_Witness ==
    \E i \in DOMAIN rm.racers :
        /\ rm.racers[i].finished
        /\ rm.racers[i].lap = rm.totalLaps
        /\ _signedDist(rm.racers[i].kart) < 0

\* C32: an update leaves the position of a racer that was finished before it
\* unchanged, and after it every such racer is ranked ahead of every racer
\* that finished in this update or has not finished.
C32_FinishedRankIsFinal ==
    [][\A i \in DOMAIN rm.racers :
          rm.racers[i].finished =>
             /\ rm'.racers[i].position = rm.racers[i].position
             /\ \A j \in DOMAIN rm.racers :
                   ~rm.racers[j].finished
                      => rm'.racers[i].position < rm'.racers[j].position]_vars

(***************************************************************************)
(* InterpolationBuffer claims (SpecLerp).                                  *)
(***************************************************************************)
\* x values buffered for the kart with this id
BufferedXs(id) ==
    UNION {{lb.snapshots[i].karts[k].x :
               k \in {j \in 1..Len(lb.snapshots[i].karts) : lb.snapshots[i].karts[j].id = id}} :
           i \in 1..Len(lb.snapshots)}

\* C40: the buffer never holds more than 30 snapshots; a read returns null
\* from an empty buffer and the single buffered snapshot's karts as they are;
\* with two or more its factor lies in [0, 1], every kart's x lies within the
\* values buffered for it, and when the render time has reached the newest
\* snapshot's time the result is the newest snapshot's karts.
C40_InterpolationNeverExtrapolates ==
    /\ Len(lb.snapshots) <= MaxSnapshots
    /\ lb.op = "get" =>
          LET n == Len(lb.snapshots)
          IN  /\ n = 0 => lb.ret = <<>>
              /\ n = 1 => (lb.ret # <<>> /\ lb.ret[1].karts = RawKarts(lb.snapshots[1].karts))
              /\ n >= 2 =>
                    /\ lb.ret # <<>>
                    /\ 0 <= lb.ret[1].t.n /\ lb.ret[1].t.n <= lb.ret[1].t.d
                    /\ \A k \in 1..Len(lb.ret[1].karts) :
                          LET r == lb.ret[1].karts[k]
                          IN  \A lo, hi \in BufferedXs(r.id) :
                                 ((\A v \in BufferedXs(r.id) : lo <= v /\ v <= hi)
                                    => (lo * r.x.d <= r.x.n /\ r.x.n <= hi * r.x.d))
                    /\ lb.now - INTERP_DELAY >= lb.snapshots[n].serverTime =>
                          \A k \in 1..Len(lb.ret[1].karts) :
                             /\ lb.ret[1].karts[k].x.n
                                   = lb.snapshots[n].karts[k].x * lb.ret[1].karts[k].x.d
                             /\ lb.ret[1].karts[k].grounded = lb.snapshots[n].karts[k].grounded

\* a read of a buffer that has dropped its oldest snapshot, at a render time
\* past the newest snapshot, whose kart has moved since the one before
C40_Witness ==
    /\ lb.op = "get"
    /\ Len(lb.snapshots) = MaxSnapshots
    /\ lb.snapshots[1].serverTime > 0
    /\ lb.now - INTERP_DELAY > lb.snapshots[MaxSnapshots].serverTime
    /\ lb.snapshots[MaxSnapshots].karts[1].x # lb.snapshots[MaxSnapshots - 1].karts[1].x

(***************************************************************************)
(* TNT claims (SpecTnt).                                                   *)
(***************************************************************************)
TntEventsOf(tid) == {i \in 1..Len(tn.events) : tn.events[i].tid = tid}

TntKept(tid) == \E i \in 1..Len(tn.placed) : tn.placed[i].tid = tid

\* C36: of every TNT an update starts from: it emits at most one tnt_detonate
\* event; if it emits one it is removed, the kart of the event is not its owner
\* while its immunity timer is positive, and that kart has vertical velocity
\* 22 and speed, slide and boost reset; if it emits none it is removed exactly
\* when its lifetime has run out.
C36_TntDetonatesOnceNotOnImmuneOwner ==
    tn.op = "tick" =>
       \A i \in 1..Len(tn.before) :
          LET tnt == tntAge(tn.before[i])
              evs == TntEventsOf(tnt.tid)
          IN  /\ Cardinality(evs) <= 1
              /\ \A e \in evs :
                    LET k == tn.events[e].kartId
                    IN  /\ ~TntKept(tnt.tid)
                        /\ tnt.lifetime > 0
                        /\ ~(k = tnt.ownerId /\ tnt.immuneTimer > 0)
                        /\ tn.karts[k].vy = TNT_EXPLODE_VEL_Y
                        /\ tn.karts[k].speed = 0
                        /\ ~tn.karts[k].slideActive
                        /\ tn.karts[k].boostSpeed = 0 /\ tn.karts[k].boostTimer = 0
              /\ evs = {} => (TntKept(tnt.tid) <=> tnt.lifetime > 0)

\* the owner stands on its TNT while immune and is spared, and another TNT
\* has detonated on a kart in the same update
C36_Witness ==
    /\ tn.op = "tick"
    /\ \E i \in 1..Len(tn.placed) :
          /\ tn.placed[i].immuneTimer > 0
          /\ Dist2(tn.karts[tn.placed[i].ownerId].pos, Pt(tn.placed[i].x, tn.placed[i].z))
                < TNT_TRIGGER_RADIUS * TNT_TRIGGER_RADIUS
    /\ Len(tn.events) = 1

\* a TNT has been removed at the end of its lifetime without an event
C36_WitnessExpired ==
    /\ tn.op = "tick"
    /\ \E i \in 1..Len(tn.before) :
          /\ tn.before[i].lifetime = 1
          /\ ~TntKept(tn.before[i].tid)
          /\ TntEventsOf(tn.before[i].tid) = {}

(***************************************************************************)
(* Item box claims (SpecBoxes).                                            *)
(***************************************************************************)
BoxEvents(b) == {i \in 1..Len(bx.events) : bx.events[i].boxIndex = b}

KartPickups(k) == {i \in 1..Len(bx.events) : bx.events[i].kartId = k}

\* C37: in every update a box emits at most one item_pickup; the kart of the
\* event held nothing when the box was looked at, is inside the pickup
\* radius, and holds the event's item, one of boost, tnt, missile; the box's
\* respawn timer was 0 and is RESPAWN_TIME after it; a box whose timer is
\* running emits nothing; and a kart that held an item before the update
\* holds the same item after it.
C37_ItemBoxGrantsOnlyToEmptyHanded ==
    bx.op = "tick" =>
       /\ \A b \in BoxIds :
             /\ Cardinality(BoxEvents(b)) <= 1
             /\ bx.before.timers[b] > 0 =>
                   (BoxEvents(b) = {} /\ bx.timers[b] = bx.before.timers[b] - 1)
             /\ \A e \in BoxEvents(b) :
                   LET k == bx.events[e].kartId
                   IN  /\ bx.before.timers[b] = 0
                       /\ bx.timers[b] = RESPAWN_TIME
                       /\ bx.before.karts[k].heldItem = "none"
                       /\ Dist2(bx.karts[k].pos, BoxAt[b]) < PICKUP_RADIUS * PICKUP_RADIUS
                       /\ bx.events[e].item \in Items
                       /\ bx.karts[k].heldItem = bx.events[e].item
       /\ \A k \in BxKartIds :
             /\ Cardinality(KartPickups(k)) <= 1
             /\ bx.before.karts[k].heldItem # "none" =>
                   bx.karts[k].heldItem = bx.before.karts[k].heldItem
             /\ KartPickups(k) = {} => bx.karts[k].heldItem = bx.before.karts[k].heldItem

\* a kart that holds an item stands inside a free box's radius and keeps its
\* item, while the other box has given an item to the other kart
C37_Witness ==
    /\ bx.op = "tick"
    /\ Len(bx.events) = 1
    /\ \E k \in BxKartIds, b \in BoxIds :
          /\ bx.before.karts[k].heldItem # "none"
          /\ bx.before.timers[b] = 0
          /\ Dist2(bx.karts[k].pos, BoxAt[b]) < PICKUP_RADIUS * PICKUP_RADIUS
          /\ bx.timers[b] = 0

(***************************************************************************)
(* Bot claims (SpecBot).                                                   *)
(***************************************************************************)
\* C38: an item a bot's kart uses has been held for at least the minimum
\* delay, and the bot's item-use tap is never up on two updates in a row.
C38_BotUsesItemAfterDelay ==
    bc.op = "tick" =>
       /\ bc.consumed => bc.heldFor >= MIN_ITEM_DELAY
       /\ bc.tapRun <= 1

\* the last update put the bot into reverse recovery
BotEntered == ~bc.prev.reversing /\ bc.c.reversing

\* the target of the last update lay to the kart's left
BotTargetWasLeft == CpAt(bc.c.checkpoints, bc.c.nextCP).x - bc.prev.kart.pos.x < 0

\* what the last update did with a bot that has checkpoints: it enters
\* recovery exactly when the stuck timer has passed 1.5 s; an update in
\* recovery reverses and steers away from the target, counts the 0.8 s down,
\* and at their end leaves recovery with the stuck timer at 0; an update
\* outside recovery that does not enter it steers at the target and drives
\* forward.
BotRecovers ==
    /\ ~bc.prev.reversing =>
          /\ bc.c.reversing <=> bc.c.stuckTimer > STUCK_TICKS
          /\ bc.c.reversing => bc.c.reverseTimer = REVERSE_TICKS
          /\ ~bc.c.reversing =>
                /\ bc.c.input.accel > 0
                /\ bc.c.input.steer = IF BotTargetWasLeft THEN 10 ELSE -10
    /\ bc.prev.reversing =>
          /\ bc.c.input.accel = -100
          /\ bc.c.input.steer = IF BotTargetWasLeft THEN -5 ELSE 5
          /\ bc.c.reverseTimer = bc.prev.reverseTimer - 1
          /\ bc.c.reversing <=> bc.c.reverseTimer > 0
          /\ ~bc.c.reversing => bc.c.stuckTimer = 0

\* C39 as stated, for every bot: a bot outside recovery whose kart has not
\* moved for more than 1.5 s of updates enters recovery, and BotRecovers.
C39_StuckBotReverses ==
    bc.op = "tick" =>
       /\ (bc.still > STUCK_TICKS /\ ~bc.prev.reversing) => BotEntered
       /\ Len(bc.c.checkpoints) > 0 => BotRecovers

\* C39 for a bot whose track has at least one checkpoint.
C39_StuckBotReversesOnTrackWithCheckpoints ==
    (bc.op = "tick" /\ Len(bc.c.checkpoints) > 0) =>
       /\ (bc.still > STUCK_TICKS /\ ~bc.prev.reversing) => BotEntered
       /\ bc.still = bc.c.stuckTimer \/ bc.c.reversing \/ bc.prev.reversing
       /\ BotRecovers

\* a bot stuck for more than 1.5 s has entered recovery
C39_Witness ==
    /\ bc.op = "tick"
    /\ Len(bc.c.checkpoints) > 0
    /\ BotEntered
    /\ bc.still > STUCK_TICKS

\* a recovery has ended
C39_WitnessEnded ==
    /\ bc.op = "tick"
    /\ bc.prev.reversing /\ ~bc.c.reversing
    /\ bc.c.stuckTimer = 0

\* the room's race is frozen at the tick of the latest snapshot (and before
\* the first one)
LatestIsFrozen == pred.latest.tick * SNAPSHOT_INTERVAL < FirstUnfrozenTick

\* C34: while the race is frozen, the local kart of the client is where the
\* server holds it, at its spawn position.
C34_LocalKartStillDuringCountdown ==
    LatestIsFrozen => pred.x = CountdownState(1).x

====
